---- MODULE Spec2Model ----
(***************************************************************************)
(* Team runtime of oh-my-claude-sisyphus: src/src/team/runtime.ts and the  *)
(* multiplexer helpers of src/src/team/tmux-session.ts.  One team (one     *)
(* team name, one cwd) is modelled: its state directory, its tmux session, *)
(* the orchestrator's calls in flight and the worker processes.            *)
(***************************************************************************)
EXTENDS Integers, Sequences, FiniteSets, TLC

\* ------------------------------------------------------------------ bounds
MaxTasks == 2
MaxWorkers == 2
NumAssigners == 2
MaxNow == 1000
MaxInbox == 2
MaxScan == 4
MaxNameLen == 2

\* ------------------------------------------------------- program constants
PollMs == 500
StallMs == 60000
ReadyTimeoutMs == 30000
NameLimit == 50
\* the longest message sendToWorker types
MessageLimit == 200
MinNameLen == 2

TaskIds == 1..MaxTasks
Workers == 1..MaxWorkers
Assigners == 1..NumAssigners
AgentTypes == {"codex", "gemini"}

\* what readJsonSafe returns when the read or the parse throws
Null == [kind |-> "null"]
\* a path that does not exist
NoFile == [kind |-> "ENOENT"]
\* a file whose content JSON.parse rejects
Corrupt == [kind |-> "corrupt"]
\* owner: null
NoOwner == 0
\* an absent timestamp field
NoTime == -1

Statuses == {"pending", "in_progress", "completed", "failed"}

VARIABLES
    now,        \* Date.now(), ms
    launchable, \* the agent types whose CLI is installed
    dirs,       \* which of root, tasks, mailbox exist under stateRoot
    config,     \* config.json: NoFile or the TeamConfig
    tasks,      \* tasks/{id}.json: NoFile, Corrupt or the record
    marker,     \* shutdown.json: NoFile or [requestedAt]
    wdir,       \* workers/{name}/ exists
    inbox,      \* workers/{name}/inbox.md: its blocks, <<>> when there is no file
    heartbeat,  \* workers/{name}/heartbeat.json: NoFile, Corrupt or the record
    ready,      \* workers/{name}/.ready exists
    ack,        \* workers/{name}/shutdown-ack.json exists
    session,    \* the tmux session: [exists, panes, running]
    st,         \* the startTeam call
    asg,        \* the assignTask calls in flight
    sd,         \* the shutdownTeam call
    snapshot,   \* the last TeamSnapshot monitorTeam returned
    hist,       \* history: what the calls have done so far
    teamName,   \* the team name the caller uses: a string, as its characters
    rs,         \* the resumeTeam call
    sn,         \* the sanitizeName call
    others,     \* the names of the other teams' sessions on the tmux server
    snd,        \* the sendToWorker call
    wr,         \* the waitForWorkerReady call
    loop,       \* the caller's loop around monitorTeam
    rp,         \* the respawnWorkerInPane call
    mon         \* the monitorTeam call that is followed read by read

fsVars == <<dirs, config, tasks, marker, wdir, inbox, heartbeat, ready, ack>>
vars == <<now, launchable, dirs, config, tasks, marker, wdir, inbox, heartbeat,
          ready, ack, session, st, asg, sd, snapshot, hist, teamName, rs, sn,
          others, snd, wr, loop, rp, mon>>

\* the calls of the helpers and of the caller's loop
helperCalls == <<snd, wr, loop, rp>>
calls == <<helperCalls, mon>>

\* ------------------------------------------------------------------ helpers
Range(s) == {s[i] : i \in DOMAIN s}

IsRecord(f) == f \notin {NoFile, Corrupt}

\* workerName(index) = `worker-${index + 1}`: a worker is named by its 1-based number
WorkerName(index) == index + 1

\* readJsonSafe: the parsed content, or null when the read or the parse throws
ReadJsonSafe(file) == IF IsRecord(file) THEN file ELSE Null

\* the record startTeam writes for task i (0-based index i, id String(i + 1))
NewTask(taskId) ==
    [id |-> taskId, status |-> "pending", owner |-> NoOwner, result |-> "null",
     assignedAt |-> NoTime]

\* -------------------------------------------------------------------- names
\* a string is the sequence of its characters; the characters the inputs are
\* made of: letters, digits and the hyphen, and characters outside that class
ValidChars == {"a", "Z", "7", "-"}
OtherChars == {" ", "_"}
Alphabet == ValidChars \cup OtherChars

\* the class [a-zA-Z0-9-]
IsValidChar(c) == c \in ValidChars

Min(a, b) == IF a <= b THEN a ELSE b

\* what a call that returns a string gives: the string, or the error it throws
Returned(value) == [kind |-> "ok", value |-> value]
Thrown(error) == [kind |-> "error", value |-> <<error>>]

\* a sanitizeName that cuts the name before it strips it
SanitizeNameCutFirst(name) ==
    LET cut == SubSeq(name, 1, Min(NameLimit, Len(name)))
        sanitized == SelectSeq(cut, IsValidChar)
    IN IF Len(sanitized) = 0 THEN Thrown("no valid characters")
       ELSE IF Len(sanitized) < MinNameLen THEN Thrown("too short")
       ELSE Returned(sanitized)

\* a sanitizeName that tests the length of the name as given
SanitizeNameLengthFirst(name) ==
    LET sanitized == SelectSeq(name, IsValidChar) IN
    IF Len(name) = 0 THEN Thrown("no valid characters")
    ELSE IF Len(name) < MinNameLen THEN Thrown("too short")
    ELSE Returned(SubSeq(sanitized, 1, Min(NameLimit, Len(sanitized))))

\* sanitizeName(name): strip to [a-zA-Z0-9-], throw on an empty or a one
\* character result, cut to 50 characters
SanitizeName(name) ==
    LET sanitized == SelectSeq(name, IsValidChar) IN
    IF Len(sanitized) = 0 THEN Thrown("no valid characters")
    ELSE IF Len(sanitized) < MinNameLen THEN Thrown("too short")
    ELSE Returned(SubSeq(sanitized, 1, Min(NameLimit, Len(sanitized))))

\* `omc-team-${name}`
SessionNameOf(name) == <<"omc-team-">> \o name

\* a team name sanitizeName leaves as it is, one it strips, one it rejects
PlainName == <<"a", "7">>
SpacedName == <<"a", " ", "7">>
BadName == <<"_">>
TeamNames == {PlainName, SpacedName, BadName}

\* pane ids: the leader's pane, and no pane
LeaderPane == 0
NoPane == -1

NoSession ==
    [exists |-> FALSE, name |-> <<>>, leader |-> NoPane, panes |-> <<>>, running |-> {},
     dead |-> {}, keys |-> {}, closed |-> {}]

NoRuntime == [sessionName |-> <<>>, workerNames |-> <<>>, workerPaneIds |-> <<>>]
IdleStart == [pc |-> "idle", cfg |-> Null, outcome |-> "none", runtime |-> NoRuntime,
              teamSession |-> Null, deadline |-> 0, readyResults |-> <<>>,
              notReady |-> <<>>]
IdleAssign == [pc |-> "idle", taskId |-> 0, target |-> 0, task |-> Null, found |-> FALSE,
               wrote |-> FALSE]
IdleShutdown == [pc |-> "idle", deadline |-> 0, workerCount |-> 0, expectedAcks |-> {},
                 wake |-> 0, removed |-> FALSE]
IdleResume == [pc |-> "idle", configData |-> Null, runtime |-> Null]
IdleSanitize == [pc |-> "idle", name |-> <<>>, result |-> Null]
IdleSend == [pc |-> "idle", message |-> <<>>, typed |-> <<>>, result |-> Null]
IdleWait == [pc |-> "idle", worker |-> 0, deadline |-> 0, wake |-> 0, at |-> 0,
             result |-> FALSE]
IdleLoop == [pc |-> "idle", phase |-> "executing"]
IdleRespawn == [pc |-> "idle", before |-> {}, created |-> NoPane, newPaneId |-> NoPane]
NoCounts == [pending |-> 0, inProgress |-> 0, completed |-> 0, failed |-> 0]
IdleScan == [pc |-> "idle", taskFiles |-> <<>>, read |-> 0, taskCounts |-> NoCounts,
             seen |-> {}]
NoSnapshot == [kind |-> "none"]

\* ---------------------------------------------------------------- inputs
\* agentTypes arrays up to MaxWorkers long
AgentTypeSeqs ==
    UNION {[1..n -> AgentTypes] : n \in 0..MaxWorkers}

\* TeamConfig (teamName and cwd are fixed: one team is modelled)
Configs ==
    [workerCount : 0..MaxWorkers, agentTypes : AgentTypeSeqs, numTasks : 0..MaxTasks]

\* ------------------------------------------------------------------ Init
\* nothing on disk, no session, no call in flight
Fresh ==
    /\ now = 0
    /\ dirs = {}
    /\ config = NoFile
    /\ tasks = [t \in TaskIds |-> NoFile]
    /\ marker = NoFile
    /\ wdir = [w \in Workers |-> FALSE]
    /\ inbox = [w \in Workers |-> <<>>]
    /\ heartbeat = [w \in Workers |-> NoFile]
    /\ ready = [w \in Workers |-> FALSE]
    /\ ack = [w \in Workers |-> FALSE]
    /\ session = NoSession
    /\ st = IdleStart
    /\ asg = [p \in Assigners |-> IdleAssign]
    /\ sd = IdleShutdown
    /\ snapshot = NoSnapshot
    /\ hist = [lost |-> FALSE, monitors |-> 0, starts |-> 0, assigned |-> "none"]
    /\ rs = IdleResume
    /\ sn = IdleSanitize
    /\ others = {}
    /\ snd = IdleSend
    /\ wr = IdleWait
    /\ loop = IdleLoop
    /\ rp = IdleRespawn
    /\ mon = IdleScan

Init ==
    /\ Fresh
    /\ launchable \in {{"codex"}, AgentTypes}
    /\ teamName \in TeamNames

\* ------------------------------------------------------------- startTeam
\* validateCliAvailable(agentType): throws when the agent's CLI is not installed
ValidateCliAvailable(agentType) == agentType \in launchable

\* the writes of startTeam, in order: mkdir tasks, mkdir mailbox, config.json,
\* one task file per task, then per worker its state dir, overlay and inbox
PersistSteps(cfg) == 3 + cfg.numTasks + cfg.workerCount

\* writes of startTeam that leave the welcome inbox for later
PersistWithoutInbox(cfg, n) ==
    /\ dirs' = dirs \cup (IF n >= 1 THEN {"root", "tasks"} ELSE {})
                    \cup (IF n >= 2 THEN {"mailbox"} ELSE {})
    /\ config' = IF n >= 3 THEN cfg ELSE config
    /\ tasks' = [t \in DOMAIN tasks |->
                   IF t <= cfg.numTasks /\ n >= 3 + t THEN NewTask(t) ELSE tasks[t]]
    /\ wdir' = [w \in Workers |->
                   wdir[w] \/ (w <= cfg.workerCount /\ n >= 3 + cfg.numTasks + w)]
    /\ UNCHANGED <<marker, inbox, heartbeat, ready, ack>>

\* the state directory after the first n writes of startTeam(cfg)
Persist(cfg, n) ==
    /\ dirs' = dirs \cup (IF n >= 1 THEN {"root", "tasks"} ELSE {})
                    \cup (IF n >= 2 THEN {"mailbox"} ELSE {})
    /\ config' = IF n >= 3 THEN cfg ELSE config
    /\ tasks' = [t \in DOMAIN tasks |->
                   IF t <= cfg.numTasks /\ n >= 3 + t THEN NewTask(t) ELSE tasks[t]]
    /\ wdir' = [w \in Workers |->
                   wdir[w] \/ (w <= cfg.workerCount /\ n >= 3 + cfg.numTasks + w)]
    /\ inbox' = [w \in Workers |->
                   IF w <= cfg.workerCount /\ n >= 3 + cfg.numTasks + w
                   THEN <<"welcome">> ELSE inbox[w]]
    /\ UNCHANGED <<marker, heartbeat, ready, ack>>

\* a startTeam that makes the tasks directory before it validates the agent types
StartTeamLateValidation(cfg, n) ==
    /\ st.pc \in {"idle", "returned", "thrown"}
    /\ n \in 0..PersistSteps(cfg)
    /\ IF \E a \in Range(cfg.agentTypes) : ~ValidateCliAvailable(a)
       THEN /\ st' = [IdleStart EXCEPT !.pc = "thrown", !.outcome = "cli-unavailable"]
            /\ Persist(cfg, 1)
       ELSE /\ Persist(cfg, n)
            /\ st' = IF n = PersistSteps(cfg)
                     THEN [IdleStart EXCEPT !.pc = "persisted", !.cfg = cfg]
                     ELSE [IdleStart EXCEPT !.pc = "thrown", !.outcome = "write-failed"]
    /\ hist' = [hist EXCEPT !.starts = 1 - @]
    /\ UNCHANGED <<calls, others, teamName, rs, sn, now, launchable, session, asg, sd, snapshot>>

\* startTeam up to the creation of the session: validate every distinct agent
\* type, then write the state directory.  Of its writes the first n succeed:
\* with n < PersistSteps(cfg) the next one throws and leaves what the earlier
\* writes produced
StartTeam(cfg, n) ==
    /\ st.pc \in {"idle", "returned", "thrown"}
    /\ n \in 0..PersistSteps(cfg)
    /\ IF \E a \in Range(cfg.agentTypes) : ~ValidateCliAvailable(a)
       THEN /\ st' = [IdleStart EXCEPT !.pc = "thrown", !.outcome = "cli-unavailable"]
            /\ UNCHANGED fsVars
       ELSE /\ Persist(cfg, n)
            /\ st' = IF n = PersistSteps(cfg)
                     THEN [IdleStart EXCEPT !.pc = "persisted", !.cfg = cfg]
                     ELSE [IdleStart EXCEPT !.pc = "thrown", !.outcome = "write-failed"]
    /\ hist' = [hist EXCEPT !.starts = 1 - @]
    /\ UNCHANGED <<calls, others, teamName, rs, sn, now, launchable, session, asg, sd, snapshot>>

\* the orders in which list-panes can list the panes 0..k
Perms(S) == {f \in [1..Cardinality(S) -> S] : Range(f) = S}

\* for each split k of n, one listing of the leader and the k worker panes alive
\* after it (the multiplexer numbers the pane of split k with k)
Listings(n) == {l \in [1..n -> UNION {Perms(0..k) : k \in 1..n}] :
                    \A k \in 1..n : Len(l[k]) = k + 1}

\* a search by position: the pane listed last
FindLastPane(allPanes, leaderPaneId, workerPaneIds) == allPanes[Len(allPanes)]

\* tmux-session.ts 182: allPanes.find(p => p !== leaderPaneId &&
\* !workerPaneIds.includes(p)); undefined when there is none
FindNewPane(allPanes, leaderPaneId, workerPaneIds) ==
    LET unknown == {i \in DOMAIN allPanes :
                       /\ allPanes[i] # leaderPaneId
                       /\ allPanes[i] \notin Range(workerPaneIds)}
    IN IF unknown = {} THEN NoPane
       ELSE allPanes[CHOOSE i \in unknown : \A j \in unknown : i <= j]

\* tmux-session.ts 168-186: workerPaneIds after the first k splits
RECURSIVE WorkerPaneIdsAfter(_, _)
WorkerPaneIdsAfter(k, listings) ==
    IF k = 0 THEN <<>>
    ELSE LET known == WorkerPaneIdsAfter(k - 1, listings)
             newPaneId == FindNewPane(listings[k], LeaderPane, known)
         IN IF newPaneId # NoPane THEN Append(known, newPaneId) ELSE known

\* createTeamSession: sanitizeName throws on a bad team name; new-session fails
\* when tmux is not available or a session of that name exists; then one
\* split per worker, the new pane found in the listing of the panes
CreateTeamSession(listings, tmuxOk) ==
    /\ st.pc = "persisted"
    /\ LET sanitized == SanitizeName(teamName)
           failure == IF sanitized.kind = "error" THEN "invalid-name"
                      ELSE IF ~tmuxOk THEN "tmux-unavailable"
                      ELSE IF \/ session.exists
                              \/ SessionNameOf(sanitized.value) \in others
                           THEN "session-failed"
                      ELSE "none"
       IN IF failure # "none"
          THEN /\ st' = [st EXCEPT !.pc = "thrown", !.cfg = Null, !.outcome = failure]
               /\ UNCHANGED session
          ELSE /\ session' = [exists |-> TRUE,
                              name |-> SessionNameOf(sanitized.value),
                              leader |-> LeaderPane,
                              panes |-> WorkerPaneIdsAfter(st.cfg.workerCount, listings),
                              running |-> {}, dead |-> {}, keys |-> {},
                              closed |-> {}]
               /\ st' = [st EXCEPT !.pc = "session",
                                   !.teamSession =
                                       [sessionName |-> SessionNameOf(sanitized.value),
                                        leaderPaneId |-> LeaderPane,
                                        allPanes |->
                                            IF st.cfg.workerCount = 0 THEN <<>>
                                            ELSE listings[st.cfg.workerCount],
                                        workerPaneIds |->
                                            WorkerPaneIdsAfter(st.cfg.workerCount,
                                                               listings)]]
    /\ UNCHANGED <<calls, others, teamName, rs, sn, now, launchable, fsVars, asg, sd, snapshot, hist>>

\* the listings of a session in which the pane of split number lost closes
\* before list-panes runs: no listing shows it
WithoutPane(listings, lost) ==
    [k \in DOMAIN listings |-> SelectSeq(listings[k], LAMBDA q : q # lost)]

\* createTeamSession up to the point where it has created the session
SessionOf(name, created, closed) ==
    [exists |-> TRUE, name |-> SessionNameOf(name), leader |-> LeaderPane,
     panes |-> [i \in 1..created |-> i], running |-> {}, dead |-> closed, keys |-> {},
     closed |-> closed]

\* a createTeamSession that kills the session when a split fails
CreateTeamSessionRollsBack(k) ==
    /\ st.pc = "persisted"
    /\ SanitizeName(teamName).kind = "ok"
    /\ ~session.exists
    /\ SessionNameOf(SanitizeName(teamName).value) \notin others
    /\ k < st.cfg.workerCount
    /\ session' = NoSession
    /\ st' = [st EXCEPT !.pc = "thrown", !.cfg = Null, !.outcome = "split-failed"]
    /\ UNCHANGED <<calls, others, teamName, rs, sn, now, launchable, fsVars, asg, sd, snapshot, hist>>

\* createTeamSession in which split-window fails after k splits (no room for
\* another pane): the rejection leaves the function at line 172; the session
\* and the k panes are there
CreateTeamSessionSplitFails(k) ==
    /\ st.pc = "persisted"
    /\ SanitizeName(teamName).kind = "ok"
    /\ ~session.exists
    /\ SessionNameOf(SanitizeName(teamName).value) \notin others
    /\ k < st.cfg.workerCount
    /\ session' = SessionOf(SanitizeName(teamName).value, k, {})
    /\ st' = [st EXCEPT !.pc = "thrown", !.cfg = Null, !.outcome = "split-failed"]
    /\ UNCHANGED <<calls, others, teamName, rs, sn, now, launchable, fsVars, asg, sd, snapshot, hist>>

\* createTeamSession in which the pane of split number lost closes before the
\* listing of line 177: find gives undefined and nothing is pushed (183-185).
\* The next split, if there is one, targets workerPaneIds[i - 1], which is
\* undefined: tmux finds no such pane and the function throws.  After the last
\* split the function returns the shorter workerPaneIds
CreateTeamSessionPaneLost(listings, lost) ==
    /\ st.pc = "persisted"
    /\ SanitizeName(teamName).kind = "ok"
    /\ ~session.exists
    /\ SessionNameOf(SanitizeName(teamName).value) \notin others
    /\ lost \in 1..st.cfg.workerCount
    /\ session' = SessionOf(SanitizeName(teamName).value, lost, {lost})
    /\ IF lost < st.cfg.workerCount
       THEN st' = [st EXCEPT !.pc = "thrown", !.cfg = Null, !.outcome = "split-failed"]
       ELSE st' = [st EXCEPT
                      !.pc = "session",
                      !.teamSession =
                          [sessionName |-> SessionNameOf(SanitizeName(teamName).value),
                           leaderPaneId |-> LeaderPane,
                           allPanes |-> WithoutPane(listings, lost)[lost],
                           workerPaneIds |->
                               WorkerPaneIdsAfter(lost, WithoutPane(listings, lost))]]
    /\ UNCHANGED <<calls, others, teamName, rs, sn, now, launchable, fsVars, asg, sd, snapshot, hist>>

\* a startTeam that goes on to wait and return when a pane id is missing
SpawnWorkersSkipsMissing ==
    /\ st.pc = "session"
    /\ session.exists
    /\ session' = [session EXCEPT !.running = Range(st.teamSession.workerPaneIds)]
    /\ st' = [st EXCEPT !.pc = "spawned",
                        !.deadline = now + ReadyTimeoutMs,
                        !.readyResults = [i \in 1..st.cfg.workerCount |-> "waiting"]]
    /\ UNCHANGED <<calls, others, teamName, rs, sn, now, launchable, fsVars, asg, sd, snapshot, hist>>

\* lines 124-137: spawnWorkerInPane for every worker, in the pane at its index
\* of workerPaneIds: the worker processes start; then the readiness waits
\* begin, each with its deadline 30 s ahead.  Where workerPaneIds has no pane
\* at the index, send-keys is given no pane and fails: startTeam throws, the
\* workers before it launched
SpawnWorkers ==
    /\ st.pc = "session"
    /\ session.exists
    /\ IF Len(st.teamSession.workerPaneIds) < st.cfg.workerCount
       THEN /\ session' = [session EXCEPT
                              !.running = Range(st.teamSession.workerPaneIds)]
            /\ st' = [st EXCEPT !.pc = "thrown", !.cfg = Null, !.teamSession = Null,
                                !.outcome = "launch-failed"]
       ELSE /\ session' = [session EXCEPT !.running = 1..st.cfg.workerCount]
            /\ st' = [st EXCEPT !.pc = "spawned",
                                !.deadline = now + ReadyTimeoutMs,
                                !.readyResults =
                                    [i \in 1..st.cfg.workerCount |-> "waiting"]]
    /\ UNCHANGED <<calls, others, teamName, rs, sn, now, launchable, fsVars, asg, sd, snapshot, hist>>

\* spawnWorkerInPane fails for worker k + 1 (send-keys is rejected: the pane
\* has closed): startTeam throws out of the loop of lines 125-133, the first k
\* workers launched
SpawnWorkersFails(k) ==
    /\ st.pc = "session"
    /\ session.exists
    /\ k < Len(st.teamSession.workerPaneIds)
    /\ session' = [session EXCEPT
                      !.running = {st.teamSession.workerPaneIds[i] : i \in 1..k},
                      !.closed = @ \cup {st.teamSession.workerPaneIds[k + 1]},
                      !.dead = @ \cup {st.teamSession.workerPaneIds[k + 1]}]
    /\ st' = [st EXCEPT !.pc = "thrown", !.cfg = Null, !.teamSession = Null,
                                !.outcome = "launch-failed"]
    /\ UNCHANGED <<calls, others, teamName, rs, sn, now, launchable, fsVars, asg, sd, snapshot, hist>>

\* waits that are awaited one after the other: the wait of a worker begins
\* when the waits of the workers before it have ended
WaitForWorkerReadyInTurn(i) ==
    /\ st.pc = "spawned"
    /\ i \in DOMAIN st.readyResults
    /\ st.readyResults[i] = "waiting"
    /\ \A j \in 1..(i - 1) : st.readyResults[j] # "waiting"
    /\ now >= st.deadline \/ ready[i]
    /\ st' = [st EXCEPT !.readyResults[i] =
                            IF now < st.deadline THEN "ready" ELSE "timeout"]
    /\ UNCHANGED <<calls, others, teamName, rs, sn, now, launchable, fsVars, session, asg, sd,
                   snapshot, hist>>

\* waitForWorkerReady of worker i comes to its end: false once the deadline has
\* passed, true when the sentinel is seen before; it sleeps otherwise
WaitForWorkerReady(i) ==
    /\ st.pc = "spawned"
    /\ i \in DOMAIN st.readyResults
    /\ st.readyResults[i] = "waiting"
    /\ now >= st.deadline \/ ready[i]
    /\ st' = [st EXCEPT !.readyResults[i] =
                            IF now < st.deadline THEN "ready" ELSE "timeout"]
    /\ UNCHANGED <<calls, others, teamName, rs, sn, now, launchable, fsVars, session, asg, sd,
                   snapshot, hist>>

\* ---------------------------------------------------- waitForWorkerReady
\* lines 271-273: a call of its own, for one worker; the deadline is set
WaitBegin(w, timeoutMs) ==
    /\ wr.pc \in {"idle", "returned"}
    /\ wr' = [IdleWait EXCEPT !.pc = "polling", !.worker = w,
                              !.deadline = now + timeoutMs]
    /\ UNCHANGED <<rp, mon, snd, loop, others, teamName, rs, sn, now, launchable, fsVars, session, st,
                   asg, sd, snapshot, hist>>

\* a turn that looks for the sentinel without a look at the deadline
WaitPollNoDeadline ==
    /\ wr.pc = "polling"
    /\ wr' = IF ready[wr.worker]
             THEN [wr EXCEPT !.pc = "returned", !.result = TRUE, !.at = now]
             ELSE [wr EXCEPT !.pc = "sleeping", !.wake = now + PollMs]
    /\ UNCHANGED <<rp, mon, snd, loop, others, teamName, rs, sn, now, launchable, fsVars, session, st,
                   asg, sd, snapshot, hist>>

\* lines 275-283: one turn of the loop: past the deadline the call returns
\* false; before it, access finds the sentinel and the call returns true, or
\* fails and the call sleeps 500 ms
WaitPoll ==
    /\ wr.pc = "polling"
    /\ wr' = IF ~(now < wr.deadline)
             THEN [wr EXCEPT !.pc = "returned", !.result = FALSE, !.at = now]
             ELSE IF ready[wr.worker]
             THEN [wr EXCEPT !.pc = "returned", !.result = TRUE, !.at = now]
             ELSE [wr EXCEPT !.pc = "sleeping", !.wake = now + PollMs]
    /\ UNCHANGED <<rp, mon, snd, loop, others, teamName, rs, sn, now, launchable, fsVars, session, st,
                   asg, sd, snapshot, hist>>

\* line 280: the 500 ms timer fires
WaitWake ==
    /\ wr.pc = "sleeping"
    /\ now >= wr.wake
    /\ wr' = [wr EXCEPT !.pc = "polling"]
    /\ UNCHANGED <<rp, mon, snd, loop, others, teamName, rs, sn, now, launchable, fsVars, session, st,
                   asg, sd, snapshot, hist>>

\* d ms pass while the call sleeps or is not running: a turn of the loop takes
\* no time, and the timer fires when it is due
WaitTick(d, horizon) ==
    /\ wr.pc # "polling"
    /\ IF wr.pc = "sleeping" THEN now + d <= wr.wake ELSE now + d <= horizon
    /\ now' = now + d
    /\ UNCHANGED <<calls, others, teamName, rs, sn, launchable, fsVars, session, st, asg, sd,
                   snapshot, hist>>

\* a return that lists only the workers that were ready in time
StartReturnReadyOnly ==
    /\ st.pc = "spawned"
    /\ \A i \in DOMAIN st.readyResults : st.readyResults[i] # "waiting"
    /\ LET workerNames == [i \in 1..st.cfg.workerCount |-> WorkerName(i - 1)]
           readyOnes == SelectSeq(workerNames, LAMBDA w : st.readyResults[w] = "ready")
       IN st' = [st EXCEPT !.pc = "returned",
                           !.cfg = Null,
                           !.teamSession = Null,
                           !.outcome = "runtime",
                           !.notReady = <<>>,
                           !.runtime = [sessionName |-> st.teamSession.sessionName,
                                        workerNames |-> readyOnes,
                                        workerPaneIds |->
                                            [j \in 1..Len(readyOnes) |->
                                                st.teamSession.workerPaneIds[readyOnes[j]]]]]
    /\ UNCHANGED <<calls, others, teamName, rs, sn, now, launchable, fsVars, session, asg, sd,
                   snapshot, hist>>

\* lines 140-152: every wait has ended; the workers that are not ready are
\* logged, and the runtime is returned
StartReturn ==
    /\ st.pc = "spawned"
    /\ \A i \in DOMAIN st.readyResults : st.readyResults[i] # "waiting"
    /\ LET workerNames == [i \in 1..st.cfg.workerCount |-> WorkerName(i - 1)] IN
       st' = [st EXCEPT !.pc = "returned",
                        !.cfg = Null,
                        !.teamSession = Null,
                        !.outcome = "runtime",
                        !.notReady = SelectSeq(workerNames,
                                               LAMBDA w : st.readyResults[w] # "ready"),
                        !.runtime = [sessionName |-> st.teamSession.sessionName,
                                     workerNames |-> workerNames,
                                     workerPaneIds |-> st.teamSession.workerPaneIds]]
    /\ UNCHANGED <<calls, others, teamName, rs, sn, now, launchable, fsVars, session, asg, sd,
                   snapshot, hist>>

\* ----------------------------------------------------------- sanitizeName
\* a call of sanitizeName(name)
SanitizeCall(name) ==
    /\ sn' = [pc |-> "done", name |-> name, result |-> SanitizeName(name)]
    /\ UNCHANGED <<calls, others, teamName, rs, now, launchable, fsVars, session, st, asg, sd,
                   snapshot, hist>>

\* ------------------------------------------------------------ assignTask
\* an assignment that starts the record afresh
AssignedFresh(task, target, at) ==
    [NewTask(task.id) EXCEPT !.owner = target, !.status = "in_progress",
                             !.assignedAt = at]

\* lines 237-239: the record as read, with owner, status and assignedAt set
Assigned(task, target, at) ==
    [task EXCEPT !.owner = target, !.status = "in_progress", !.assignedAt = at]

\* a write-back that would merge: the record on disk at the time of the write, updated
WriteBackMerged(p) == Assigned(tasks[asg[p].taskId], asg[p].target, now)

\* the record assignTask writes back: the copy it read, updated
WriteBack(p) == Assigned(asg[p].task, asg[p].target, now)

\* the assignTask calls in flight that will append to the inbox of target
InFlight(target) == {q \in Assigners : asg[q].pc # "idle" /\ asg[q].target = target}

\* line 235: readJsonSafe(taskPath).  (A call starts only while the inbox it
\* will append to has room for its block: the inbox is bounded by MaxInbox.)
AssignRead(p, taskId, target) ==
    /\ asg[p].pc = "idle"
    /\ Len(inbox[target]) + Cardinality(InFlight(target)) < MaxInbox
    /\ asg' = [asg EXCEPT ![p] = [pc |-> "read", taskId |-> taskId, target |-> target,
                                  task |-> ReadJsonSafe(tasks[taskId]),
                                  found |-> ReadJsonSafe(tasks[taskId]) # Null,
                                  wrote |-> FALSE]]
    /\ UNCHANGED <<calls, others, teamName, rs, sn, now, launchable, fsVars, session, st, sd, snapshot, hist>>

\* runtime.ts 166-172 over a whole task board: how many of its files parse to
\* each status
TallyOf(board) ==
    LET n(status) == Cardinality({t \in DOMAIN board :
                                     /\ ReadJsonSafe(board[t]) # Null
                                     /\ ReadJsonSafe(board[t]).status = status}) IN
    [pending |-> n("pending"), inProgress |-> n("in_progress"),
     completed |-> n("completed"), failed |-> n("failed")]

\* history: while a monitorTeam call is scanning, the tally of every board a
\* write to a task file leaves
Witnessed(board) ==
    IF mon.pc = "scanning" THEN [mon EXCEPT !.seen = @ \cup {TallyOf(board)}] ELSE mon

\* lines 236-241: when a record was read, write it back whole (writeJson makes
\* the directory and writes the file; a failure throws out of assignTask)
AssignWrite(p, ok) ==
    /\ asg[p].pc = "read"
    /\ IF asg[p].task = Null
       THEN /\ asg' = [asg EXCEPT ![p].pc = "written"]
            /\ UNCHANGED <<dirs, tasks, hist>>
       ELSE IF ok
       THEN /\ dirs' = dirs \cup {"root", "tasks"}
            /\ tasks' = [tasks EXCEPT ![asg[p].taskId] = WriteBack(p)]
            /\ asg' = [asg EXCEPT ![p].pc = "written", ![p].task = Null,
                                   ![p].wrote = TRUE]
            /\ hist' = [hist EXCEPT !.lost = @ \/ tasks[asg[p].taskId] # asg[p].task]
       ELSE /\ asg' = [asg EXCEPT ![p] = IdleAssign]
            /\ hist' = [hist EXCEPT !.assigned = "thrown"]
            /\ UNCHANGED <<dirs, tasks>>
    /\ mon' = Witnessed(tasks')
    /\ UNCHANGED <<helperCalls, others, teamName, rs, sn, now, launchable, config, marker, wdir, inbox, heartbeat, ready, ack,
                   session, st, sd, snapshot>>

\* a sendToWorker that reports success once the message itself is typed
SendKeysLiteralOnly(message, literalOk, enterOk) ==
    LET cut == IF Len(message) > MessageLimit
               THEN SubSeq(message, 1, MessageLimit) ELSE message
    IN IF ~literalOk THEN [typed |-> <<>>, result |-> Returned(FALSE)]
       ELSE [typed |-> <<cut>> \o (IF enterOk THEN <<"Enter">> ELSE <<>>),
             result |-> Returned(TRUE)]

\* tmux-session.ts 242-255: the message is cut to 200 characters, then typed
\* with send-keys -l, then Enter is sent; the first send-keys that fails ends
\* the call with false.  typed: the keys that reached the pane
SendKeys(message, literalOk, enterOk) ==
    LET cut == IF Len(message) > MessageLimit
               THEN SubSeq(message, 1, MessageLimit) ELSE message
    IN IF ~literalOk THEN [typed |-> <<>>, result |-> Returned(FALSE)]
       ELSE IF ~enterOk THEN [typed |-> <<cut>>, result |-> Returned(FALSE)]
       ELSE [typed |-> <<cut, "Enter">>, result |-> Returned(TRUE)]

\* a sendToWorker call on its own: literalOk and enterOk tell whether the two
\* send-keys commands succeed
SendToWorkerCall(message, literalOk, enterOk) ==
    /\ snd.pc = "idle"
    /\ snd' = [pc |-> IF ~literalOk THEN "literal-failed"
                      ELSE IF ~enterOk THEN "enter-failed" ELSE "sent",
               message |-> message,
               typed |-> SendKeys(message, literalOk, enterOk).typed,
               result |-> SendKeys(message, literalOk, enterOk).result]
    /\ UNCHANGED <<rp, mon, wr, loop, others, teamName, rs, sn, now, launchable, fsVars, session, st,
                   asg, sd, snapshot, hist>>

\* send-keys -t paneId reaches a pane of the session that is still there
TakesKeys(paneId) ==
    session.exists /\ paneId \in Range(session.panes) /\ paneId \notin session.dead

\* sendToWorker: the keystrokes reach the pane when it exists; never throws
SendToWorker(paneId, message) ==
    IF TakesKeys(paneId)
    THEN [session EXCEPT !.keys = @ \cup {<<paneId, message>>}]
    ELSE session

\* an assignTask that sends the trigger before it appends to the inbox
AssignNotifyTriggerFirst(p, ok) ==
    /\ asg[p].pc = "written"
    /\ session' = SendToWorker(asg[p].target, asg[p].taskId)
    /\ asg' = [asg EXCEPT ![p] = IdleAssign]
    /\ IF ok
       THEN /\ dirs' = dirs \cup {"root"}
            /\ wdir' = [wdir EXCEPT ![asg[p].target] = TRUE]
            /\ inbox' = [inbox EXCEPT ![asg[p].target] = Append(@, asg[p].taskId)]
            /\ hist' = [hist EXCEPT !.assigned = "returned"]
       ELSE /\ hist' = [hist EXCEPT !.assigned = "thrown"]
            /\ UNCHANGED <<dirs, wdir, inbox>>
    /\ UNCHANGED <<calls, others, teamName, rs, sn, now, launchable, config, tasks, marker, heartbeat, ready, ack,
                   st, sd, snapshot>>

\* an assignTask that gives up when the trigger cannot be delivered
AssignNotifyOrThrow(p, ok) ==
    /\ asg[p].pc = "written"
    /\ IF ok
       THEN /\ dirs' = dirs \cup {"root"}
            /\ wdir' = [wdir EXCEPT ![asg[p].target] = TRUE]
            /\ inbox' = [inbox EXCEPT ![asg[p].target] = Append(@, asg[p].taskId)]
            /\ session' = SendToWorker(asg[p].target, asg[p].taskId)
            /\ asg' = [asg EXCEPT ![p] = IdleAssign]
            /\ hist' = [hist EXCEPT !.assigned =
                            IF session' = session THEN "thrown" ELSE "returned"]
       ELSE /\ asg' = [asg EXCEPT ![p] = IdleAssign]
            /\ hist' = [hist EXCEPT !.assigned = "thrown"]
            /\ UNCHANGED <<dirs, wdir, inbox, session>>
    /\ UNCHANGED <<calls, others, teamName, rs, sn, now, launchable, config, tasks, marker, heartbeat, ready, ack,
                   st, sd, snapshot>>

\* lines 243-251: append the assignment block to the inbox (mkdir and appendFile
\* may throw), then send the trigger; sendToWorker returns false when the keys
\* do not reach the pane, and its result is not looked at: the call returns
AssignNotify(p, ok) ==
    /\ asg[p].pc = "written"
    /\ IF ok
       THEN /\ dirs' = dirs \cup {"root"}
            /\ wdir' = [wdir EXCEPT ![asg[p].target] = TRUE]
            /\ inbox' = [inbox EXCEPT ![asg[p].target] = Append(@, asg[p].taskId)]
            /\ session' = SendToWorker(asg[p].target, asg[p].taskId)
            /\ asg' = [asg EXCEPT ![p] = IdleAssign]
            /\ hist' = [hist EXCEPT !.assigned = "returned"]
       ELSE /\ asg' = [asg EXCEPT ![p] = IdleAssign]
            /\ hist' = [hist EXCEPT !.assigned = "thrown"]
            /\ UNCHANGED <<dirs, wdir, inbox, session>>
    /\ UNCHANGED <<calls, others, teamName, rs, sn, now, launchable, config, tasks, marker, heartbeat, ready, ack,
                   st, sd, snapshot>>

\* ------------------------------------------------------- worker processes
\* a worker is a process running in a live pane of the session
Running(w) == session.exists /\ w \in session.running /\ w \notin session.dead

\* a worker claims a pending task from the task board
WorkerClaim(w, taskId) ==
    /\ Running(w)
    /\ IsRecord(tasks[taskId])
    /\ tasks[taskId].status = "pending"
    /\ tasks' = [tasks EXCEPT ![taskId] = [@ EXCEPT !.status = "in_progress", !.owner = w]]
    /\ mon' = Witnessed(tasks')
    /\ UNCHANGED <<helperCalls, others, teamName, rs, sn, now, launchable, dirs, config, marker, wdir, inbox, heartbeat, ready,
                   ack, session, st, asg, sd, snapshot, hist>>

\* a worker reports the end of the task it owns
WorkerFinish(w, taskId, status) ==
    /\ Running(w)
    /\ IsRecord(tasks[taskId])
    /\ tasks[taskId].status = "in_progress"
    /\ tasks[taskId].owner = w
    /\ tasks' = [tasks EXCEPT ![taskId] = [@ EXCEPT !.status = status, !.result = "done"]]
    /\ mon' = Witnessed(tasks')
    /\ UNCHANGED <<helperCalls, others, teamName, rs, sn, now, launchable, dirs, config, marker, wdir, inbox, heartbeat, ready,
                   ack, session, st, asg, sd, snapshot, hist>>

\* a worker leaves a task file that does not parse (a truncated write)
WorkerGarble(w, taskId) ==
    /\ Running(w)
    /\ IsRecord(tasks[taskId])
    /\ tasks' = [tasks EXCEPT ![taskId] = Corrupt]
    /\ mon' = Witnessed(tasks')
    /\ UNCHANGED <<helperCalls, others, teamName, rs, sn, now, launchable, dirs, config, marker, wdir, inbox, heartbeat, ready,
                   ack, session, st, asg, sd, snapshot, hist>>

\* a running worker writes its ready sentinel
WorkerReady(w) ==
    /\ Running(w)
    /\ wdir[w]
    /\ ~ready[w]
    /\ ready' = [ready EXCEPT ![w] = TRUE]
    /\ UNCHANGED <<calls, others, teamName, rs, sn, now, launchable, dirs, config, tasks, marker, wdir,
                   inbox, heartbeat, ack, session, st, asg, sd, snapshot, hist>>

\* a running worker overwrites its heartbeat file
WorkerHeartbeat(w, taskId) ==
    /\ Running(w)
    /\ wdir[w]
    /\ heartbeat' = [heartbeat EXCEPT
                        ![w] = [updatedAt |-> now, currentTaskId |-> taskId]]
    /\ UNCHANGED <<calls, others, teamName, rs, sn, now, launchable, dirs, config, tasks, marker, wdir, inbox, ready,
                   ack, session, st, asg, sd, snapshot, hist>>

\* a running worker that sees the shutdown request writes its ack marker
WorkerAck(w) ==
    /\ Running(w)
    /\ wdir[w]
    /\ marker # NoFile
    /\ ~ack[w]
    /\ ack' = [ack EXCEPT ![w] = TRUE]
    /\ UNCHANGED <<calls, others, teamName, rs, sn, now, launchable, dirs, config, tasks, marker, wdir, inbox, heartbeat,
                   ready, session, st, asg, sd, snapshot, hist>>

\* a worker process ends: its pane is dead
WorkerExit(w) ==
    /\ Running(w)
    /\ session' = [session EXCEPT !.dead = @ \cup {w}]
    /\ UNCHANGED <<calls, others, teamName, rs, sn, now, launchable, fsVars, st, asg, sd, snapshot, hist>>

\* the pane of a worker closes (kill-pane, or the shell of the pane exits): the
\* pane is gone from the session, and its worker with it
PaneCloses(w) ==
    /\ session.exists
    /\ w \in Range(session.panes)
    /\ w \notin session.closed
    /\ session' = [session EXCEPT !.closed = @ \cup {w}, !.dead = @ \cup {w}]
    /\ UNCHANGED <<calls, others, teamName, rs, sn, now, launchable, fsVars, st, asg, sd, snapshot, hist>>

\* ------------------------------------------------------------ monitorTeam
\* readdir(tasks) filtered to *.json; no file when the directory is missing
TaskFiles == {t \in DOMAIN tasks : tasks[t] # NoFile}

\* lines 166-172: a file counts under the status its parsed content names
CountStatus(status) ==
    Cardinality({t \in TaskFiles :
                    /\ ReadJsonSafe(tasks[t]) # Null
                    /\ ReadJsonSafe(tasks[t]).status = status})

TaskCounts ==
    [pending |-> CountStatus("pending"), inProgress |-> CountStatus("in_progress"),
     completed |-> CountStatus("completed"), failed |-> CountStatus("failed")]

\* a phase inference whose planning branch does not look at completed
PhaseNoCompletedCheck(c) ==
    IF c.inProgress = 0 /\ c.pending > 0 THEN "planning"
    ELSE IF c.failed > 0 /\ c.pending = 0 /\ c.inProgress = 0 THEN "fixing"
    ELSE IF c.completed > 0 /\ c.pending = 0 /\ c.inProgress = 0 /\ c.failed = 0
         THEN "completed"
    ELSE "executing"

\* lines 207-215: infer phase from task counts
Phase(c) ==
    IF c.inProgress = 0 /\ c.pending > 0 /\ c.completed = 0 THEN "planning"
    ELSE IF c.failed > 0 /\ c.pending = 0 /\ c.inProgress = 0 THEN "fixing"
    ELSE IF c.completed > 0 /\ c.pending = 0 /\ c.inProgress = 0 /\ c.failed = 0
         THEN "completed"
    ELSE "executing"

\* display-message -t paneId -p '#{pane_dead}': fails when there is no such
\* pane (no server, no session, pane closed), else prints the pane's flag
PaneDeadQuery(paneId) ==
    IF \/ ~session.exists
       \/ paneId \notin Range(session.panes)
       \/ paneId \in session.closed
    THEN Thrown("can't find pane")
    ELSE Returned(IF paneId \in session.dead THEN "1" ELSE "0")

\* an isWorkerAlive that takes a failed query for a live pane
IsWorkerAliveFailOpen(paneId) ==
    LET result == PaneDeadQuery(paneId) IN
    IF result.kind = "ok" THEN result.value = "0" ELSE TRUE

\* isWorkerAlive: true when the query prints 0; false when it prints anything
\* else and when it fails
IsWorkerAlive(paneId) ==
    LET result == PaneDeadQuery(paneId) IN
    IF result.kind = "ok" THEN result.value = "0" ELSE FALSE

\* a stall test that fires at the threshold itself
StalledAtThreshold(hb, at) ==
    /\ hb # Null
    /\ hb.updatedAt # NoTime
    /\ at - hb.updatedAt >= StallMs

\* lines 187-191: stalled when the heartbeat has an updatedAt older than 60 s
Stalled(hb, at) ==
    /\ hb # Null
    /\ hb.updatedAt # NoTime
    /\ at - hb.updatedAt > StallMs

\* lines 179-200: the status of the worker at index i of workerPaneIds
WorkerStatusOf(i, paneIds) ==
    LET hb == ReadJsonSafe(heartbeat[i]) IN
    [workerName |-> WorkerName(i - 1),
     alive |-> IsWorkerAlive(paneIds[i]),
     paneId |-> paneIds[i],
     currentTaskId |-> IF hb # Null THEN hb.currentTaskId ELSE 0,
     lastHeartbeat |-> IF hb # Null THEN hb.updatedAt ELSE NoTime,
     stalled |-> Stalled(hb, now)]

\* a list of dead workers that takes in the stalled ones
DeadWorkersOrStalled(workers) ==
    LET dead == SelectSeq(workers, LAMBDA x : ~x.alive \/ x.stalled) IN
    [j \in 1..Len(dead) |-> dead[j].workerName]

\* the names of the workers that are not alive, in worker order
DeadWorkers(workers) ==
    LET dead == SelectSeq(workers, LAMBDA x : ~x.alive) IN
    [j \in 1..Len(dead) |-> dead[j].workerName]

\* line 217: the snapshot monitorTeam returns
TeamSnapshotOf(paneIds) ==
    LET workers == [i \in 1..Len(paneIds) |-> WorkerStatusOf(i, paneIds)] IN
    [kind |-> "snapshot",
     phase |-> Phase(TaskCounts),
     workers |-> workers,
     taskCounts |-> TaskCounts,
     deadWorkers |-> DeadWorkers(workers)]

\* a monitorTeam that removes the task files it cannot parse
MonitorTeamSweeping(paneIds) ==
    /\ snapshot' = TeamSnapshotOf(paneIds)
    /\ hist' = [hist EXCEPT !.monitors = 1 - @]
    /\ tasks' = [t \in DOMAIN tasks |-> IF tasks[t] = Corrupt THEN NoFile ELSE tasks[t]]
    /\ UNCHANGED <<calls, others, teamName, rs, sn, now, launchable, dirs, config, marker,
                   wdir, inbox, heartbeat, ready, ack, session, st, asg, sd>>

\* monitorTeam(teamName, cwd, workerPaneIds)
MonitorTeam(paneIds) ==
    /\ snapshot' = TeamSnapshotOf(paneIds)
    /\ hist' = [hist EXCEPT !.monitors = 1 - @]
    /\ UNCHANGED <<calls, others, teamName, rs, sn, now, launchable, fsVars, session, st, asg, sd>>

\* monitorTeam followed read by read. Lines 164-165: readdir lists the task
\* files, in an order of the file system's choosing; a missing directory
\* throws into the catch of line 173 and the counts stay zero
ScanBegin(taskFiles) ==
    /\ mon.pc \in {"idle", "returned"}
    /\ taskFiles \in Perms(IF "tasks" \in dirs THEN TaskFiles ELSE {})
    /\ mon' = [pc |-> "scanning", taskFiles |-> taskFiles, read |-> 0,
               taskCounts |-> NoCounts, seen |-> {TallyOf(tasks)}]
    /\ UNCHANGED <<helperCalls, others, teamName, rs, sn, now, launchable, fsVars, session,
                   st, asg, sd, snapshot, hist>>

\* lines 166-171: one awaited readJsonSafe of the next listed file, counted
\* under the status it holds at that moment
ScanCount(taskCounts, task) ==
    IF task = Null THEN taskCounts
    ELSE IF task.status = "pending" THEN [taskCounts EXCEPT !.pending = @ + 1]
    ELSE IF task.status = "in_progress" THEN [taskCounts EXCEPT !.inProgress = @ + 1]
    ELSE IF task.status = "completed" THEN [taskCounts EXCEPT !.completed = @ + 1]
    ELSE IF task.status = "failed" THEN [taskCounts EXCEPT !.failed = @ + 1]
    ELSE taskCounts

ScanRead ==
    /\ mon.pc = "scanning"
    /\ mon.read < Len(mon.taskFiles)
    /\ LET f == mon.taskFiles[mon.read + 1] IN
       mon' = [mon EXCEPT !.read = @ + 1,
                          !.taskCounts = ScanCount(@, ReadJsonSafe(tasks[f]))]
    /\ UNCHANGED <<helperCalls, others, teamName, rs, sn, now, launchable, fsVars, session,
                   st, asg, sd, snapshot, hist>>

\* lines 175-217: the health of the workers, the phase, the snapshot
ScanReturn(paneIds) ==
    /\ mon.pc = "scanning"
    /\ mon.read = Len(mon.taskFiles)
    /\ snapshot' = [TeamSnapshotOf(paneIds) EXCEPT !.taskCounts = mon.taskCounts,
                                                   !.phase = Phase(mon.taskCounts)]
    /\ mon' = [mon EXCEPT !.pc = "returned"]
    /\ UNCHANGED <<helperCalls, others, teamName, rs, sn, now, launchable, fsVars, session,
                   st, asg, sd, hist>>

\* ------------------------------------------------- Monitor Until Complete
\* the caller's loop, part_010 474-479: let phase = 'executing'
LoopBegin ==
    /\ loop.pc = "idle"
    /\ st.pc = "returned"
    /\ loop' = [pc |-> "running", phase |-> "executing"]
    /\ UNCHANGED <<rp, mon, snd, wr, others, teamName, rs, sn, now, launchable, fsVars, session, st,
                   asg, sd, snapshot, hist>>

\* line 475: the test of the loop
LoopGoesOn(phase) == phase # "completed" /\ phase # "failed"

\* lines 476-478: one turn: the 5 s timer, then monitorTeam on the runtime's
\* panes, whose phase is kept (the clock is left out: the turn looks at the
\* phase alone)
LoopTurn ==
    /\ loop.pc = "running"
    /\ LoopGoesOn(loop.phase)
    /\ snapshot' = TeamSnapshotOf(st.runtime.workerPaneIds)
    /\ hist' = [hist EXCEPT !.monitors = 1 - @]
    /\ loop' = [loop EXCEPT !.phase = snapshot'.phase]
    /\ UNCHANGED <<rp, mon, snd, wr, others, teamName, rs, sn, now, launchable, fsVars, session, st,
                   asg, sd>>

\* line 475: the test fails and the loop is left
LoopExit ==
    /\ loop.pc = "running"
    /\ ~LoopGoesOn(loop.phase)
    /\ loop' = [loop EXCEPT !.pc = "exited"]
    /\ UNCHANGED <<rp, mon, snd, wr, others, teamName, rs, sn, now, launchable, fsVars, session, st,
                   asg, sd, snapshot, hist>>

\* ----------------------------------------------------------- shutdownTeam
\* lines 265-272: write the shutdown request (writeJson may throw), then set
\* the deadline.  (Calls start within the horizon MaxNow, which bounds the clock.)
ShutdownBegin(timeoutMs, ok) ==
    /\ sd.pc \in {"idle", "returned", "thrown"}
    /\ now <= MaxNow
    /\ IF ok
       THEN /\ dirs' = dirs \cup {"root"}
            /\ marker' = [requestedAt |-> now]
            /\ sd' = [IdleShutdown EXCEPT !.pc = "marked",
                                           !.deadline = now + timeoutMs]
       ELSE /\ sd' = [IdleShutdown EXCEPT !.pc = "thrown"]
            /\ UNCHANGED <<dirs, marker>>
    /\ UNCHANGED <<calls, others, teamName, rs, sn, now, launchable, config, tasks, wdir, inbox, heartbeat, ready, ack,
                   session, st, asg, snapshot, hist>>

\* lines 273-275: the workers to wait for are those config.json counts
ShutdownReadConfig ==
    /\ sd.pc = "marked"
    /\ LET configData == ReadJsonSafe(config)
           workerCount == IF configData # Null THEN configData.workerCount ELSE 0
       IN sd' = [sd EXCEPT !.pc = "polling", !.workerCount = workerCount,
                           !.expectedAcks = 1..workerCount]
    /\ UNCHANGED <<calls, others, teamName, rs, sn, now, launchable, fsVars, session, st, asg, snapshot, hist>>

\* a loop condition without the deadline
LoopIgnoresDeadline(at, deadline, expectedAcks) == expectedAcks # {}

\* line 277: the condition of the polling loop
LoopContinues(at, deadline, expectedAcks) ==
    at < deadline /\ expectedAcks # {}

\* a look at the ack markers that drops the workers that have not acked
LeftAfterPollInverted(expectedAcks) == {w \in expectedAcks : ack[w]}

\* lines 278-283: the workers still waited for after a look at the ack markers
LeftAfterPoll(expectedAcks) == {w \in expectedAcks : ~ack[w]}

\* a turn of the loop that sleeps after every look at the ack markers
ShutdownPollAlwaysSleeps ==
    /\ sd.pc = "polling"
    /\ IF LoopContinues(now, sd.deadline, sd.expectedAcks)
       THEN sd' = [sd EXCEPT !.expectedAcks = LeftAfterPoll(sd.expectedAcks),
                             !.pc = "sleeping",
                             !.wake = now + PollMs]
       ELSE sd' = [sd EXCEPT !.pc = "killing"]
    /\ UNCHANGED <<calls, others, teamName, rs, sn, now, launchable, fsVars, session, st, asg, snapshot, hist>>

\* lines 277-287: one turn of the loop: drop the workers whose ack marker
\* exists, sleep when some are left; the loop ends on the deadline or when
\* none is left
ShutdownPoll ==
    /\ sd.pc = "polling"
    /\ IF LoopContinues(now, sd.deadline, sd.expectedAcks)
       THEN LET left == LeftAfterPoll(sd.expectedAcks) IN
            sd' = [sd EXCEPT !.expectedAcks = left,
                             !.pc = IF left # {} THEN "sleeping" ELSE "killing",
                             !.wake = IF left # {} THEN now + PollMs ELSE @]
       ELSE sd' = [sd EXCEPT !.pc = "killing"]
    /\ UNCHANGED <<calls, others, teamName, rs, sn, now, launchable, fsVars, session, st, asg, snapshot, hist>>

\* line 285: the 500 ms timer fires
ShutdownWake ==
    /\ sd.pc = "sleeping"
    /\ now >= sd.wake
    /\ sd' = [sd EXCEPT !.pc = "polling"]
    /\ UNCHANGED <<calls, others, teamName, rs, sn, now, launchable, fsVars, session, st, asg, snapshot, hist>>

\* killTeamSession: kill-session; its failure (no such session) is swallowed
KillTeamSession == NoSession

\* a kill step that spares the session when some worker has not acked
ShutdownKillIfAcked ==
    /\ sd.pc = "killing"
    /\ session' = IF sd.expectedAcks = {} THEN KillTeamSession ELSE session
    /\ sd' = [sd EXCEPT !.pc = "cleaning"]
    /\ UNCHANGED <<calls, others, teamName, rs, sn, now, launchable, fsVars, st, asg, snapshot, hist>>

\* line 290
ShutdownKill ==
    /\ sd.pc = "killing"
    /\ session' = KillTeamSession
    /\ sd' = [sd EXCEPT !.pc = "cleaning"]
    /\ UNCHANGED <<calls, others, teamName, rs, sn, now, launchable, fsVars, st, asg, snapshot, hist>>

\* a cleanup that removes the marker files and leaves the config and the tasks
ShutdownCleanupMarkersOnly(ok) ==
    /\ sd.pc = "cleaning"
    /\ IF ok
       THEN /\ marker' = NoFile
            /\ ready' = [w \in Workers |-> FALSE]
            /\ ack' = [w \in Workers |-> FALSE]
            /\ UNCHANGED <<dirs, config, tasks, wdir, inbox, heartbeat>>
       ELSE UNCHANGED fsVars
    /\ sd' = [sd EXCEPT !.pc = "returned", !.removed = ok]
    /\ UNCHANGED <<calls, others, teamName, rs, sn, now, launchable, session, st, asg, snapshot, hist>>

\* lines 292-297: rm -rf of the state directory; a failure is ignored
ShutdownCleanup(ok) ==
    /\ sd.pc = "cleaning"
    /\ IF ok
       THEN /\ dirs' = {}
            /\ config' = NoFile
            /\ tasks' = [t \in DOMAIN tasks |-> NoFile]
            /\ marker' = NoFile
            /\ wdir' = [w \in Workers |-> FALSE]
            /\ inbox' = [w \in Workers |-> <<>>]
            /\ heartbeat' = [w \in Workers |-> NoFile]
            /\ ready' = [w \in Workers |-> FALSE]
            /\ ack' = [w \in Workers |-> FALSE]
       ELSE UNCHANGED fsVars
    /\ sd' = [sd EXCEPT !.pc = "returned", !.removed = ok]
    /\ UNCHANGED <<calls, others, teamName, rs, sn, now, launchable, session, st, asg, snapshot, hist>>

\* ------------------------------------------------------------------ clock
\* the longest timeoutMs a caller passes to shutdownTeam
MaxTimeout == PollMs + PollMs \div 2

\* the latest time a timer of a call started within MaxNow can be set for
ClockCap == MaxNow + MaxTimeout + PollMs

\* d ms pass; past the horizon only while a timer is pending
Tick(d, horizon) ==
    /\ \/ now + d <= horizon
       \/ sd.pc = "sleeping" /\ now < sd.wake /\ now < ClockCap
    /\ now' = now + d
    /\ UNCHANGED <<calls, others, teamName, rs, sn, launchable, fsVars, session, st, asg, sd, snapshot, hist>>

\* ---------------------------------------------------------- specifications
\* the workerPaneIds arrays a caller passes to monitorTeam
PaneIdSeqs == {[i \in 1..n |-> i] : n \in 0..MaxWorkers}

\* the timeoutMs a caller passes to shutdownTeam
Timeouts == {0, PollMs, MaxTimeout}

\* ------------------------------------------------------------- resumeTeam
\* the names other teams can have: one that begins like PlainName, one that
\* does not
OtherNames == {<<"a", "7", "Z">>, <<"Z", "Z">>}

\* the panes of another team's session: its leader and one worker
OtherPanes == <<10, 11>>

\* startTeam of another team, under its own state directory, has created its
\* session on the same tmux server
OtherTeamStarts(name) ==
    /\ SanitizeName(name).kind = "ok"
    /\ SessionNameOf(SanitizeName(name).value) \notin others
    /\ ~(session.exists /\ session.name = SessionNameOf(SanitizeName(name).value))
    /\ others' = others \cup {SessionNameOf(SanitizeName(name).value)}
    /\ UNCHANGED <<calls, teamName, rs, sn, now, launchable, fsVars, session, st, asg, sd,
                   snapshot, hist>>

\* startTeam whose write of config.json is cut short: writeFile has truncated
\* the file and throws before the content is complete
StartTeamTorn(cfg) ==
    /\ st.pc \in {"idle", "returned", "thrown"}
    /\ \A a \in Range(cfg.agentTypes) : ValidateCliAvailable(a)
    /\ dirs' = dirs \cup {"root", "tasks", "mailbox"}
    /\ config' = Corrupt
    /\ st' = [IdleStart EXCEPT !.pc = "thrown", !.outcome = "write-failed"]
    /\ hist' = [hist EXCEPT !.starts = 1 - @]
    /\ UNCHANGED <<calls, others, teamName, rs, sn, now, launchable, tasks, marker, wdir, inbox,
                   heartbeat, ready, ack, session, asg, sd, snapshot>>

IsPrefix(p, s) == Len(p) <= Len(s) /\ SubSeq(s, 1, Len(p)) = p

\* the names of the sessions alive on the tmux server
LiveSessions == others \cup (IF session.exists THEN {session.name} ELSE {})

\* the session a tmux target names (-t target): the session of exactly that
\* name, else the only session whose name begins with it; none otherwise
TargetSession(target) ==
    LET starts == {name \in LiveSessions : IsPrefix(target, name)}
    IN IF target \in LiveSessions THEN {target}
       ELSE IF Cardinality(starts) = 1 THEN starts
       ELSE {}

\* tmux has-session -t target exits 0
HasSession(target) == TargetSession(target) # {}

\* what list-panes prints for a session: the panes of its window in the
\* window's order.  Every split of createTeamSession puts the new pane behind
\* the pane it splits, which is the last one: the leader's pane comes first,
\* then the workers' panes that are still there, in the order of creation
PaneListings(name) ==
    IF session.exists /\ name = session.name
    THEN {<<session.leader>>
             \o SelectSeq(session.panes, LAMBDA q : q \notin session.closed)}
    ELSE {OtherPanes}

\* lines 304-306: config.json is read; resumeTeam returns null without it
ResumeBegin ==
    /\ rs.pc \in {"idle", "none", "returned", "thrown"}
    /\ rs' = IF ReadJsonSafe(config) = Null
             THEN [IdleResume EXCEPT !.pc = "none"]
             ELSE [IdleResume EXCEPT !.pc = "read", !.configData = ReadJsonSafe(config)]
    /\ UNCHANGED <<calls, others, teamName, sn, now, launchable, fsVars, session, st, asg, sd,
                   snapshot, hist>>

\* lines 312-318: has-session on `omc-team-${teamName}`; null when it fails
ResumeProbe ==
    /\ rs.pc = "read"
    /\ rs' = IF HasSession(SessionNameOf(teamName))
             THEN [rs EXCEPT !.pc = "alive"]
             ELSE [IdleResume EXCEPT !.pc = "none"]
    /\ UNCHANGED <<calls, others, teamName, sn, now, launchable, fsVars, session, st, asg, sd,
                   snapshot, hist>>

\* a resumeTeam that rebuilds the config from the panes it finds
ResumeListDerivedConfig ==
    /\ rs.pc = "alive"
    /\ IF HasSession(SessionNameOf(teamName))
       THEN \E name \in TargetSession(SessionNameOf(teamName)) :
               \E allPanes \in PaneListings(name) :
                  rs' = [rs EXCEPT !.pc = "returned",
                                   !.runtime =
                                       [sessionName |-> SessionNameOf(teamName),
                                        config |-> [workerCount |-> Len(allPanes) - 1,
                                                    agentTypes |-> <<>>,
                                                    numTasks |-> 0],
                                        workerNames |->
                                            [i \in 1..(Len(allPanes) - 1) |->
                                                WorkerName(i - 1)],
                                        workerPaneIds |-> Tail(allPanes)]]
       ELSE rs' = [IdleResume EXCEPT !.pc = "thrown"]
    /\ UNCHANGED <<calls, others, teamName, sn, now, launchable, fsVars, session, st, asg, sd,
                   snapshot, hist>>

\* lines 321-336: list-panes, outside any try; the first pane listed is taken
\* for the leader's, the others for the workers'
ResumeList ==
    /\ rs.pc = "alive"
    /\ IF HasSession(SessionNameOf(teamName))
       THEN \E name \in TargetSession(SessionNameOf(teamName)) :
               \E allPanes \in PaneListings(name) :
                  rs' = [rs EXCEPT !.pc = "returned",
                                   !.runtime =
                                       [sessionName |-> SessionNameOf(teamName),
                                        config |-> rs.configData,
                                        workerNames |->
                                            [i \in 1..(Len(allPanes) - 1) |->
                                                WorkerName(i - 1)],
                                        workerPaneIds |-> Tail(allPanes)]]
       ELSE rs' = [IdleResume EXCEPT !.pc = "thrown"]
    /\ UNCHANGED <<calls, others, teamName, sn, now, launchable, fsVars, session, st, asg, sd,
                   snapshot, hist>>

\* ---------------------------------------------------- respawnWorkerInPane
\* the panes of the session's window: the leader's and the workers' that have
\* not closed
WindowPanes ==
    {session.leader} \cup {q \in Range(session.panes) : q \notin session.closed}

\* the pane ids tmux has given out in the session so far: ids count up and
\* are not given out again
PanesCreated == Len(session.panes)

\* split-window puts the new pane behind the pane it splits
SplitBehind(panes, target, newPane) ==
    IF target \notin Range(panes) THEN <<newPane>> \o panes
    ELSE LET i == CHOOSE j \in DOMAIN panes : panes[j] = target
         IN SubSeq(panes, 1, i) \o <<newPane>> \o SubSeq(panes, i + 1, Len(panes))

\* lines 331-333: split-window -v -t sessionName splits the pane that is
\* active in the session's window; which pane that is lies with whoever uses
\* the session (select-pane).  The command fails without the session, and
\* when the pane has no room for another (ok = FALSE)
RespawnSplit(active, ok) ==
    /\ rp.pc \in {"idle", "returned", "thrown"}
    /\ st.pc = "returned"
    /\ PanesCreated <= MaxWorkers
    /\ IF session.exists /\ session.name = st.runtime.sessionName /\ ok
       THEN /\ active \in WindowPanes
            /\ session' = [session EXCEPT
                              !.panes = SplitBehind(@, active, PanesCreated + 1)]
            /\ rp' = [IdleRespawn EXCEPT !.pc = "split", !.before = WindowPanes,
                                         !.created = PanesCreated + 1]
       ELSE /\ rp' = [IdleRespawn EXCEPT !.pc = "thrown", !.before = WindowPanes]
            /\ UNCHANGED session
    /\ UNCHANGED <<mon, snd, wr, loop, others, teamName, rs, sn, now, launchable, fsVars, st,
                   asg, sd, snapshot, hist>>

\* line 340: allPanes[allPanes.length - 1]
RespawnNewPane(allPanes) == allPanes[Len(allPanes)]

\* lines 336-340: list-panes, and the pane listed last is taken for the new one
RespawnList ==
    /\ rp.pc = "split"
    /\ IF session.exists
       THEN \E allPanes \in PaneListings(session.name) :
               rp' = [rp EXCEPT !.pc = "listed", !.newPaneId = RespawnNewPane(allPanes)]
       ELSE rp' = [rp EXCEPT !.pc = "thrown"]
    /\ UNCHANGED <<mon, snd, wr, loop, others, teamName, rs, sn, now, launchable, fsVars,
                   session, st, asg, sd, snapshot, hist>>

\* lines 343-345: spawnWorkerInPane types the start command into that pane
\* (send-keys fails when the pane is gone), and the pane id is returned
RespawnSpawn ==
    /\ rp.pc = "listed"
    /\ IF session.exists /\ rp.newPaneId \in WindowPanes
       THEN /\ session' = [session EXCEPT !.running = @ \cup {rp.newPaneId}]
            /\ rp' = [rp EXCEPT !.pc = "returned"]
       ELSE /\ rp' = [rp EXCEPT !.pc = "thrown"]
            /\ UNCHANGED session
    /\ UNCHANGED <<mon, snd, wr, loop, others, teamName, rs, sn, now, launchable, fsVars, st,
                   asg, sd, snapshot, hist>>

\* a team of MaxWorkers workers and MaxTasks tasks, no agent type named
FullTeam == [workerCount |-> MaxWorkers, agentTypes |-> <<>>, numTasks |-> MaxTasks]

\* the steps of a startTeam call past its writes, tmux at work
StartSteps ==
    \/ \E listings \in Listings(MaxWorkers) : CreateTeamSession(listings, TRUE)
    \/ SpawnWorkers
    \/ \E i \in Workers : WaitForWorkerReady(i)
    \/ StartReturn

\* every operation, every input, every fault
Next ==
    \/ \E cfg \in Configs, n \in 0..(3 + MaxTasks + MaxWorkers) : StartTeam(cfg, n)
    \/ \E listings \in Listings(MaxWorkers), tmuxOk \in BOOLEAN :
          CreateTeamSession(listings, tmuxOk)
    \/ SpawnWorkers
    \/ \E i \in Workers : WaitForWorkerReady(i)
    \/ StartReturn
    \/ \E w \in Workers : WorkerReady(w)
    \/ \E p \in Assigners, taskId \in TaskIds, target \in Workers :
          AssignRead(p, taskId, target)
    \/ \E p \in Assigners, ok \in BOOLEAN : AssignWrite(p, ok)
    \/ \E p \in Assigners, ok \in BOOLEAN : AssignNotify(p, ok)
    \/ \E w \in Workers, taskId \in TaskIds : WorkerClaim(w, taskId)
    \/ \E w \in Workers, taskId \in TaskIds, status \in {"completed", "failed"} :
          WorkerFinish(w, taskId, status)
    \/ \E w \in Workers, taskId \in TaskIds : WorkerGarble(w, taskId)
    \/ \E w \in Workers, taskId \in TaskIds : WorkerHeartbeat(w, taskId)
    \/ \E w \in Workers : WorkerAck(w)
    \/ \E w \in Workers : WorkerExit(w)
    \/ \E paneIds \in PaneIdSeqs : MonitorTeam(paneIds)
    \/ \E timeoutMs \in Timeouts, ok \in BOOLEAN : ShutdownBegin(timeoutMs, ok)
    \/ ShutdownReadConfig
    \/ ShutdownPoll
    \/ ShutdownWake
    \/ ShutdownKill
    \/ \E ok \in BOOLEAN : ShutdownCleanup(ok)
    \/ \E cfg \in Configs : StartTeamTorn(cfg)
    \/ \E name \in OtherNames : OtherTeamStarts(name)
    \/ ResumeBegin
    \/ ResumeProbe
    \/ ResumeList
    \/ \E w \in Workers : PaneCloses(w)
    \/ SanitizeCall(teamName)
    \/ \E message \in {<<>>, <<"a">>}, literalOk \in BOOLEAN, enterOk \in BOOLEAN :
          SendToWorkerCall(message, literalOk, enterOk)
    \/ \E w \in Workers, timeoutMs \in {0, PollMs} : WaitBegin(w, timeoutMs)
    \/ WaitPoll
    \/ WaitWake
    \/ LoopBegin
    \/ LoopTurn
    \/ LoopExit
    \/ \E active \in 0..MaxWorkers, ok \in BOOLEAN : RespawnSplit(active, ok)
    \/ RespawnList
    \/ RespawnSpawn
    \/ \E k \in 0..MaxWorkers : CreateTeamSessionSplitFails(k)
    \/ \E listings \in Listings(MaxWorkers), lost \in Workers :
          CreateTeamSessionPaneLost(listings, lost)
    \/ \E k \in 0..MaxWorkers : SpawnWorkersFails(k)
    \/ \E taskFiles \in UNION {Perms(S) : S \in SUBSET TaskIds} : ScanBegin(taskFiles)
    \/ ScanRead
    \/ \E paneIds \in PaneIdSeqs : ScanReturn(paneIds)
    \/ Tick(PollMs, MaxNow)

Spec == Init /\ [][Next]_vars

\* every CLI is installed, and the team has a plain name
BoardInit == Init /\ launchable = AgentTypes /\ teamName = PlainName

\* the task board under assignment: one team, the assignTask calls on its
\* first task and the workers' own writes of that task file
TaskNext ==
    \/ StartTeam(FullTeam, PersistSteps(FullTeam))
    \/ StartSteps
    \/ \E w \in Workers : WorkerReady(w)
    \/ \E p \in Assigners, target \in Workers : AssignRead(p, 1, target)
    \/ \E p \in Assigners, ok \in BOOLEAN : AssignWrite(p, ok)
    \/ \E p \in Assigners, ok \in BOOLEAN : AssignNotify(p, ok)
    \/ \E w \in Workers : WorkerClaim(w, 1)
    \/ \E w \in Workers, status \in {"completed", "failed"} : WorkerFinish(w, 1, status)

TaskSpec == BoardInit /\ [][TaskNext]_vars

\* the task board under monitoring: the workers work the tasks off (or garble
\* a task file) while the orchestrator takes snapshots
MonitorNext ==
    \/ StartTeam(FullTeam, PersistSteps(FullTeam))
    \/ StartSteps
    \/ \E w \in Workers : WorkerReady(w)
    \/ \E w \in Workers, taskId \in TaskIds : WorkerClaim(w, taskId)
    \/ \E w \in Workers, taskId \in TaskIds, status \in {"completed", "failed"} :
          WorkerFinish(w, taskId, status)
    \/ \E w \in Workers, taskId \in TaskIds : WorkerGarble(w, taskId)
    \/ MonitorTeam(st.runtime.workerPaneIds)

MonitorSpec == BoardInit /\ [][MonitorNext]_vars

\* monitorTeam over every content of a tasks directory of MaxScan files
FileOf(taskId, content) ==
    IF content = "ENOENT" THEN NoFile
    ELSE IF content = "corrupt" THEN Corrupt
    ELSE [NewTask(taskId) EXCEPT !.status = content]

PhaseInit ==
    /\ now = 0
    /\ launchable = AgentTypes
    /\ dirs = {"root", "tasks", "mailbox"}
    /\ config = [workerCount |-> 0, agentTypes |-> <<>>, numTasks |-> MaxScan]
    /\ \E content \in [1..MaxScan -> {"ENOENT", "corrupt"} \cup Statuses] :
          tasks = [t \in 1..MaxScan |-> FileOf(t, content[t])]
    /\ marker = NoFile
    /\ wdir = [w \in Workers |-> FALSE]
    /\ inbox = [w \in Workers |-> <<>>]
    /\ heartbeat = [w \in Workers |-> NoFile]
    /\ ready = [w \in Workers |-> FALSE]
    /\ ack = [w \in Workers |-> FALSE]
    /\ session = [NoSession EXCEPT !.exists = TRUE, !.name = SessionNameOf(PlainName),
                                   !.leader = LeaderPane]
    /\ st = [IdleStart EXCEPT !.pc = "returned", !.outcome = "runtime"]
    /\ asg = [p \in Assigners |-> IdleAssign]
    /\ sd = IdleShutdown
    /\ snapshot = NoSnapshot
    /\ hist = [lost |-> FALSE, monitors |-> 0, starts |-> 0, assigned |-> "none"]
    /\ teamName = PlainName
    /\ rs = IdleResume
    /\ sn = IdleSanitize
    /\ others = {}
    /\ snd = IdleSend
    /\ wr = IdleWait
    /\ loop = IdleLoop
    /\ rp = IdleRespawn
    /\ mon = IdleScan

PhaseNext == MonitorTeam(<<>>)

PhaseSpec == PhaseInit /\ [][PhaseNext]_vars

\* monitorTeam over the heartbeat files of a started team, at sampled times
HeartbeatSamples ==
    {NoFile, Corrupt}
        \cup [updatedAt : {NoTime, 0, 1, StallMs}, currentTaskId : {1}]

NowSamples == {0, StallMs, StallMs + 1, StallMs + StallMs}

StallInit ==
    /\ now \in NowSamples
    /\ launchable = AgentTypes
    /\ dirs = {"root", "tasks", "mailbox"}
    /\ config = FullTeam
    /\ tasks = [t \in TaskIds |-> NewTask(t)]
    /\ marker = NoFile
    /\ wdir = [w \in Workers |-> TRUE]
    /\ inbox = [w \in Workers |-> <<"welcome">>]
    /\ heartbeat \in [Workers -> HeartbeatSamples]
    /\ ready = [w \in Workers |-> TRUE]
    /\ ack = [w \in Workers |-> FALSE]
    /\ session = [exists |-> TRUE, name |-> SessionNameOf(PlainName),
                  leader |-> LeaderPane,
                  panes |-> [i \in Workers |-> i],
                  running |-> Workers, dead |-> {}, keys |-> {}, closed |-> {}]
    /\ st = [IdleStart EXCEPT
                 !.pc = "returned", !.outcome = "runtime",
                 !.runtime = [sessionName |-> SessionNameOf(PlainName),
                              workerNames |-> [i \in Workers |-> WorkerName(i - 1)],
                              workerPaneIds |-> [i \in Workers |-> i]]]
    /\ asg = [p \in Assigners |-> IdleAssign]
    /\ sd = IdleShutdown
    /\ snapshot = NoSnapshot
    /\ hist = [lost |-> FALSE, monitors |-> 0, starts |-> 0, assigned |-> "none"]
    /\ teamName = PlainName
    /\ rs = IdleResume
    /\ sn = IdleSanitize
    /\ others = {}
    /\ snd = IdleSend
    /\ wr = IdleWait
    /\ loop = IdleLoop
    /\ rp = IdleRespawn
    /\ mon = IdleScan

StallNext ==
    \/ MonitorTeam(st.runtime.workerPaneIds)
    \/ \E w \in Workers : WorkerExit(w)

StallSpec == StallInit /\ [][StallNext]_vars

\* shutdown of a team of any size: the workers ack or not, writes fail or not
ShutdownConfigs ==
    {cfg \in Configs : cfg.agentTypes = <<>> /\ cfg.numTasks = 0}

\* a startTeam call is between its first and its last step
StartRunning == st.pc \notin {"idle", "returned", "thrown"}

\* a shutdownTeam call is between its first and its last step
ShutdownRunning == sd.pc \notin {"idle", "returned", "thrown"}

\* the lead awaits each of its calls: startTeam and shutdownTeam do not overlap
ShutdownNext ==
    \/ ~ShutdownRunning /\ \E cfg \in ShutdownConfigs : StartTeam(cfg, PersistSteps(cfg))
    \/ StartSteps
    \/ \E w \in Workers : WorkerReady(w)
    \/ \E w \in Workers : WorkerAck(w)
    \/ ~StartRunning /\ \E timeoutMs \in Timeouts, ok \in BOOLEAN :
                            ShutdownBegin(timeoutMs, ok)
    \/ ShutdownReadConfig
    \/ ShutdownPoll
    \/ ShutdownWake
    \/ ShutdownKill
    \/ \E ok \in BOOLEAN : ShutdownCleanup(ok)
    \/ Tick(PollMs, MaxNow)

ShutdownSpec == BoardInit /\ [][ShutdownNext]_vars

\* the orchestrator's own steps are taken when they are enabled (the event loop
\* runs every continuation that is ready) and time passes; nothing is assumed
\* of the workers
FairShutdownSpec ==
    /\ ShutdownSpec
    /\ WF_vars(ShutdownReadConfig)
    /\ WF_vars(ShutdownPoll)
    /\ WF_vars(ShutdownWake)
    /\ WF_vars(ShutdownKill)
    /\ WF_vars(\E ok \in BOOLEAN : ShutdownCleanup(ok))
    /\ WF_vars(Tick(PollMs, MaxNow))

\* strings up to n characters long
SeqsUpTo(S, n) == UNION {[1..k -> S] : k \in 0..n}

\* k valid characters
Pad(k) == [i \in 1..k |-> "a"]

\* names for sanitizeName: every string of up to MaxNameLen characters, then
\* none, 49 or 50 valid characters, then at most one more character
NameInputs ==
    {head \o Pad(k) \o tail : head \in SeqsUpTo(Alphabet, MaxNameLen),
                               k \in {0, NameLimit - 1, NameLimit},
                               tail \in SeqsUpTo(Alphabet, 1)}

SanitizeInit ==
    /\ Fresh
    /\ launchable = AgentTypes
    /\ teamName \in NameInputs

\* sanitizeName on the name, and again on what it returned
SanitizeNext ==
    \/ SanitizeCall(teamName)
    \/ sn.pc = "done" /\ sn.result.kind = "ok" /\ SanitizeCall(sn.result.value)

SanitizeSpec == SanitizeInit /\ [][SanitizeNext]_vars

\* the readiness waits of a starting team: each worker writes its sentinel in
\* time, late or never (or dies first), while the clock runs past the deadline
ReadyHorizon == ReadyTimeoutMs + ReadyTimeoutMs

ReadyNext ==
    \/ \E cfg \in ShutdownConfigs : StartTeam(cfg, PersistSteps(cfg))
    \/ StartSteps
    \/ \E w \in Workers : WorkerReady(w)
    \/ \E w \in Workers : WorkerExit(w)
    \/ Tick(ReadyTimeoutMs \div 2, ReadyHorizon)

ReadySpec == BoardInit /\ [][ReadyNext]_vars

\* resumeTeam on a team of any name, started or not, shut down or not, next to
\* the sessions of other teams
ResumeInit == Fresh /\ launchable = AgentTypes /\ teamName \in TeamNames

ResumeNext ==
    \/ ~ShutdownRunning /\ \E cfg \in ShutdownConfigs : StartTeam(cfg, PersistSteps(cfg))
    \/ ~ShutdownRunning /\ \E cfg \in ShutdownConfigs : StartTeamTorn(cfg)
    \/ \E listings \in Listings(MaxWorkers), tmuxOk \in BOOLEAN :
          CreateTeamSession(listings, tmuxOk)
    \/ SpawnWorkers
    \/ \E i \in Workers : WaitForWorkerReady(i)
    \/ StartReturn
    \/ \E w \in Workers : WorkerReady(w)
    \/ \E name \in OtherNames : OtherTeamStarts(name)
    \/ ResumeBegin
    \/ ResumeProbe
    \/ ResumeList
    \/ ~StartRunning /\ ShutdownBegin(0, TRUE)
    \/ ShutdownReadConfig
    \/ ShutdownPoll
    \/ ShutdownKill
    \/ \E ok \in BOOLEAN : ShutdownCleanup(ok)

ResumeSpec == ResumeInit /\ [][ResumeNext]_vars

\* a team that is resumed while panes of its session close
PairNext ==
    \/ \E cfg \in ShutdownConfigs : StartTeam(cfg, PersistSteps(cfg))
    \/ StartSteps
    \/ \E w \in Workers : WorkerReady(w)
    \/ \E w \in Workers : PaneCloses(w)
    \/ ResumeBegin
    \/ ResumeProbe
    \/ ResumeList

PairSpec == BoardInit /\ [][PairNext]_vars

\* a running team that is monitored, assigned to and resumed, and on which
\* startTeam is called again
RecoverConfigs == {cfg \in Configs : cfg.agentTypes = <<>> /\ cfg.numTasks = 1}

RecoverNext ==
    \/ \E cfg \in RecoverConfigs : StartTeam(cfg, PersistSteps(cfg))
    \/ StartSteps
    \/ \E w \in Workers : WorkerReady(w)
    \/ AssignRead(1, 1, 1)
    \/ \E ok \in BOOLEAN : AssignWrite(1, ok)
    \/ \E ok \in BOOLEAN : AssignNotify(1, ok)
    \/ MonitorTeam(st.runtime.workerPaneIds)
    \/ ResumeBegin
    \/ ResumeProbe
    \/ ResumeList

RecoverSpec == BoardInit /\ [][RecoverNext]_vars

\* the life of one team: started, shut down once and not started again, and
\* resumed at any time, next to the sessions of other teams
DownNext ==
    \/ sd.pc = "idle" /\ \E cfg \in RecoverConfigs : StartTeam(cfg, PersistSteps(cfg))
    \/ StartSteps
    \/ \E w \in Workers : WorkerReady(w)
    \/ \E w \in Workers : WorkerAck(w)
    \/ \E name \in OtherNames : OtherTeamStarts(name)
    \/ /\ ~StartRunning
       /\ sd.pc = "idle"
       /\ \E timeoutMs \in {0, PollMs} : ShutdownBegin(timeoutMs, TRUE)
    \/ ShutdownReadConfig
    \/ ShutdownPoll
    \/ ShutdownWake
    \/ ShutdownKill
    \/ \E ok \in BOOLEAN : ShutdownCleanup(ok)
    \/ ResumeBegin
    \/ ResumeProbe
    \/ ResumeList
    \/ Tick(PollMs, PollMs)

DownSpec == BoardInit /\ [][DownNext]_vars

\* sendToWorker on messages around the limit of 200 characters: up to 2
\* characters, then none, 198, 199 or 200 more
Messages ==
    {head \o Pad(k) :
        head \in SeqsUpTo(Alphabet, 2),
        k \in {0, MessageLimit - 2, MessageLimit - 1, MessageLimit}}

SendNext ==
    \E message \in Messages, literalOk \in BOOLEAN, enterOk \in BOOLEAN :
        SendToWorkerCall(message, literalOk, enterOk)

SendSpec == BoardInit /\ [][SendNext]_vars

\* monitorTeam on a team whose workers exit and whose panes close, before the
\* session exists and after it is killed
AliveNext ==
    \/ /\ ~ShutdownRunning
       /\ \E cfg \in ShutdownConfigs : StartTeam(cfg, PersistSteps(cfg))
    \/ StartSteps
    \/ \E w \in Workers : WorkerReady(w)
    \/ \E w \in Workers : WorkerExit(w)
    \/ \E w \in Workers : PaneCloses(w)
    \/ ~StartRunning /\ ShutdownBegin(0, TRUE)
    \/ ShutdownReadConfig
    \/ ShutdownPoll
    \/ ShutdownKill
    \/ ShutdownCleanup(TRUE)
    \/ \E paneIds \in PaneIdSeqs : MonitorTeam(paneIds)

AliveSpec == BoardInit /\ [][AliveNext]_vars

\* waitForWorkerReady called within the first 500 ms on a worker that writes
\* its sentinel early, late or never, with timeouts below, at and above the
\* poll interval
WaitTimeouts == {0, PollMs \div 2, PollMs, PollMs + PollMs \div 2, PollMs + PollMs}

WaitNext ==
    \/ StartTeam(FullTeam, PersistSteps(FullTeam))
    \/ \E listings \in Listings(MaxWorkers) : CreateTeamSession(listings, TRUE)
    \/ SpawnWorkers
    \/ WorkerReady(1)
    \/ now <= PollMs /\ \E timeoutMs \in WaitTimeouts : WaitBegin(1, timeoutMs)
    \/ WaitPoll
    \/ WaitWake
    \/ WaitTick(PollMs \div 2, PollMs)

WaitSpec == BoardInit /\ [][WaitNext]_vars

\* the timer fires and the continuation runs; nothing is assumed of the worker
FairWaitSpec ==
    /\ WaitSpec
    /\ WF_vars(WaitPoll)
    /\ WF_vars(WaitWake)
    /\ WF_vars(WaitTick(PollMs \div 2, PollMs))

\* the caller's monitoring loop on a team started once, whose workers work the
\* tasks off, each to completed or to failed
LoopNext ==
    \/ st.pc = "idle" /\ StartTeam(FullTeam, PersistSteps(FullTeam))
    \/ StartSteps
    \/ \E w \in Workers : WorkerReady(w)
    \/ \E w \in Workers, taskId \in TaskIds : WorkerClaim(w, taskId)
    \/ \E w \in Workers, taskId \in TaskIds, status \in {"completed", "failed"} :
          WorkerFinish(w, taskId, status)
    \/ LoopBegin
    \/ LoopTurn
    \/ LoopExit

LoopSpec == BoardInit /\ [][LoopNext]_vars

\* the loop's timer fires and its continuation runs; nothing is assumed of the
\* workers
FairLoopSpec ==
    /\ LoopSpec
    /\ WF_vars(LoopTurn)
    /\ WF_vars(LoopExit)

\* manual recovery: a started team whose workers exit and whose panes close,
\* and a respawn, whatever pane is active in the window
RespawnNext ==
    \/ st.pc = "idle" /\ \E cfg \in ShutdownConfigs : StartTeam(cfg, PersistSteps(cfg))
    \/ StartSteps
    \/ \E w \in Workers : WorkerReady(w)
    \/ \E w \in Workers : WorkerExit(w)
    \/ \E q \in 1..(MaxWorkers + 1) : PaneCloses(q)
    \/ \E active \in 0..MaxWorkers, ok \in BOOLEAN : RespawnSplit(active, ok)
    \/ RespawnList
    \/ RespawnSpawn

RespawnSpec == BoardInit /\ [][RespawnNext]_vars

\* assignTask, one call at a time, on a task that has a record and on one that
\* has none, for workers that exit and panes that close
NotifyNext ==
    \/ st.pc = "idle" /\ \E cfg \in RecoverConfigs : StartTeam(cfg, PersistSteps(cfg))
    \/ StartSteps
    \/ \E w \in Workers : WorkerReady(w)
    \/ \E w \in Workers : WorkerExit(w)
    \/ \E w \in Workers : PaneCloses(w)
    \/ \E taskId \in TaskIds, target \in Workers : AssignRead(1, taskId, target)
    \/ \E ok \in BOOLEAN : AssignWrite(1, ok)
    \/ \E ok \in BOOLEAN : AssignNotify(1, ok)

NotifySpec == BoardInit /\ [][NotifyNext]_vars

\* one monitorTeam call read by read on the board of a started team, while each
\* worker works the task of its own number off and assignTask hands the first
\* task to the first worker
ScanNext ==
    \/ st.pc = "idle" /\ StartTeam(FullTeam, PersistSteps(FullTeam))
    \/ StartSteps
    \/ \E w \in Workers : WorkerReady(w)
    \/ \E w \in Workers : WorkerClaim(w, w)
    \/ \E w \in Workers, status \in {"completed", "failed"} : WorkerFinish(w, w, status)
    \/ AssignRead(1, 1, 1)
    \/ AssignWrite(1, TRUE)
    \/ AssignNotify(1, TRUE)
    \/ /\ mon.pc = "idle"
       /\ st.pc = "returned"
       /\ \E taskFiles \in Perms(TaskIds) : ScanBegin(taskFiles)
    \/ ScanRead
    \/ ScanReturn(st.runtime.workerPaneIds)

ScanSpec == BoardInit /\ [][ScanNext]_vars

\* startTeam with everything that can fail on its way: a write, the session,
\* a split, a pane that closes at once, a launch
FaultConfigs == {cfg \in Configs : cfg.agentTypes = <<>>}

FaultNext ==
    \/ \E cfg \in FaultConfigs, n \in 0..(3 + MaxTasks + MaxWorkers) : StartTeam(cfg, n)
    \/ \E listings \in Listings(MaxWorkers), tmuxOk \in BOOLEAN :
          CreateTeamSession(listings, tmuxOk)
    \/ \E k \in 0..MaxWorkers : CreateTeamSessionSplitFails(k)
    \/ \E listings \in Listings(MaxWorkers), lost \in Workers :
          CreateTeamSessionPaneLost(listings, lost)
    \/ SpawnWorkers
    \/ \E k \in 0..MaxWorkers : SpawnWorkersFails(k)
    \/ \E i \in Workers : WaitForWorkerReady(i)
    \/ StartReturn
    \/ \E w \in Workers : WorkerReady(w)

FaultSpec == BoardInit /\ [][FaultNext]_vars

\* startTeam on every config, with every write that can fail
StartNext ==
    \/ \E cfg \in Configs, n \in 0..(3 + MaxTasks + MaxWorkers) : StartTeam(cfg, n)
    \/ \E listings \in Listings(MaxWorkers), tmuxOk \in BOOLEAN :
          CreateTeamSession(listings, tmuxOk)
    \/ SpawnWorkers
    \/ \E i \in Workers : WaitForWorkerReady(i)
    \/ StartReturn
    \/ \E w \in Workers : WorkerReady(w)

StartSpec == Init /\ [][StartNext]_vars

\* ------------------------------------------------------------------ claims
StatusRank(status) ==
    CASE status = "pending" -> 0
      [] status = "in_progress" -> 1
      [] OTHER -> 2

\* a step from status a to status b of pending -> in_progress -> {completed | failed}
StatusAdvances(a, b) == a = b \/ StatusRank(a) < StatusRank(b)

AssignWrites(p) == asg[p].pc = "read" /\ asg'[p].pc = "written" /\ asg[p].task # Null

\* C1: no assignTask moves the status of a task record backwards: the record
\* it writes over the one it read (no other writer in between) has the same
\* status or a later one
C1_AssignKeepsStatusMonotonic ==
    [][\A p \in Assigners :
          (AssignWrites(p) /\ tasks[asg[p].taskId] = asg[p].task)
              => StatusAdvances(tasks[asg[p].taskId].status,
                                tasks'[asg[p].taskId].status)]_vars

MonitorReturns == hist'.monitors # hist.monitors

\* C3: the counts of every snapshot add up to the number of task files on disk
C3_CountsCoverFiles ==
    [][MonitorReturns
          => snapshot'.taskCounts.pending + snapshot'.taskCounts.inProgress
               + snapshot'.taskCounts.completed + snapshot'.taskCounts.failed
             = Cardinality(TaskFiles)]_vars

\* the table of the phases
TablePhase(c) ==
    CASE c.pending > 0 /\ c.inProgress = 0 /\ c.completed = 0 -> "planning"
      [] c.pending = 0 /\ c.inProgress = 0 /\ c.completed > 0 /\ c.failed = 0 -> "completed"
      [] c.pending = 0 /\ c.inProgress = 0 /\ c.failed > 0 -> "fixing"
      [] OTHER -> "executing"

\* C4: the phase of every snapshot is the phase the table gives for its counts
C4_PhaseMatchesTable ==
    snapshot.kind = "snapshot" => snapshot.phase = TablePhase(snapshot.taskCounts)

\* C4, its case: a snapshot of failed and completed tasks, nothing pending or running
C4_FixingSnapshot ==
    /\ snapshot.kind = "snapshot"
    /\ snapshot.phase = "fixing"
    /\ snapshot.taskCounts.completed > 0
    /\ snapshot.taskCounts.failed > 0

\* C5: a worker of a snapshot is stalled exactly when its heartbeat file holds
\* an updatedAt more than 60000 ms before the time of the call
C5_StalledIffOldHeartbeat ==
    [][MonitorReturns
          => \A i \in DOMAIN snapshot'.workers :
                snapshot'.workers[i].stalled
                    <=> /\ IsRecord(heartbeat[i])
                        /\ heartbeat[i].updatedAt # NoTime
                        /\ now - heartbeat[i].updatedAt > 60000]_vars

\* C5, its case: one snapshot with a worker at age 60000 (not stalled), one at
\* age 60001 (stalled)
C5_BoundarySnapshot ==
    /\ snapshot.kind = "snapshot"
    /\ \E i, j \in DOMAIN snapshot.workers :
          /\ snapshot.workers[i].lastHeartbeat # NoTime
          /\ now - snapshot.workers[i].lastHeartbeat = 60000
          /\ ~snapshot.workers[i].stalled
          /\ snapshot.workers[j].lastHeartbeat # NoTime
          /\ now - snapshot.workers[j].lastHeartbeat = 60001
          /\ snapshot.workers[j].stalled

\* C6: every shutdownTeam call ends, whatever the workers do
C6_ShutdownTerminates == ShutdownRunning ~> sd.pc \in {"returned", "thrown"}

\* C6, its case: a call that returned past its deadline with workers that never acked
C6_ReturnedWithoutAcks ==
    /\ sd.pc = "returned"
    /\ sd.expectedAcks # {}
    /\ now >= sd.deadline

\* C7: shutdownTeam never throws
C7_ShutdownNeverThrows == sd.pc # "thrown"

ShutdownReturns == sd.pc = "cleaning" /\ sd'.pc = "returned"

\* C8: when shutdownTeam returns, the session does not exist and the state
\* directory is gone
C8_ReturnedMeansGone ==
    [][ShutdownReturns => ~session'.exists /\ "root" \notin dirs']_vars

\* C8 as amended: when shutdownTeam returns, the session does not exist, and
\* the state directory is gone unless its recursive delete failed
C8_ReturnedMeansGoneUnlessRmFailed ==
    [][ShutdownReturns
          => ~session'.exists /\ (sd'.removed => "root" \notin dirs')]_vars

\* C8, its case: returned with workers that never acked, session and state gone
C8_GoneWithoutAcks ==
    /\ sd.pc = "returned"
    /\ sd.expectedAcks # {}
    /\ ~session.exists
    /\ dirs = {}

SessionKilled == session.exists /\ ~session'.exists

StartTeamCalled == hist'.starts # hist.starts

\* C10: a startTeam that fails on an agent type that is not launchable has
\* changed nothing on disk and created no session
C10_ValidationBeforeSideEffects ==
    [][(StartTeamCalled /\ st'.outcome = "cli-unavailable")
          => UNCHANGED <<dirs, config, tasks, marker, wdir, inbox, heartbeat, ready,
                         ack, session>>]_vars

\* C10, its case: the failure is raised and there is no team state, no session
C10_FailedWithNothingCreated ==
    /\ st.pc = "thrown"
    /\ st.outcome = "cli-unavailable"
    /\ dirs = {}
    /\ config = NoFile
    /\ \A t \in DOMAIN tasks : tasks[t] = NoFile
    /\ \A w \in Workers : ~wdir[w] /\ inbox[w] = <<>>
    /\ ~session.exists

\* nothing of the team is on disk
NoTeamState ==
    /\ dirs = {}
    /\ config = NoFile
    /\ \A t \in DOMAIN tasks : tasks[t] = NoFile
    /\ marker = NoFile
    /\ \A w \in Workers : ~wdir[w] /\ inbox[w] = <<>>

\* C11: when startTeam has failed because tmux is not available or because
\* sanitizeName rejects the team name, no team state is on disk and no session
\* exists
C11_FailFastNoPartialState ==
    (st.pc = "thrown" /\ st.outcome \in {"tmux-unavailable", "invalid-name"})
        => NoTeamState /\ ~session.exists

\* the waits of startTeam come to their end
WaitsEnd == st.pc = "spawned" /\ st'.pc # "spawned"

\* C12: whatever the readiness waits gave, startTeam then returns (it does not
\* throw) a runtime that names all workerCount workers and as many panes
C12_NotReadyStillReturned ==
    [][WaitsEnd
          => /\ st'.pc = "returned"
             /\ st'.runtime.workerNames =
                    [i \in 1..st.cfg.workerCount |-> WorkerName(i - 1)]
             /\ Len(st'.runtime.workerPaneIds) = st.cfg.workerCount
             /\ st'.runtime.workerPaneIds = st.teamSession.workerPaneIds]_vars

\* C12, its case: a returned runtime of two workers, one ready in time, one
\* that never was
C12_ReturnedWithTimedOutWorker ==
    /\ st.pc = "returned"
    /\ Len(st.runtime.workerNames) = 2
    /\ Len(st.notReady) = 1
    /\ \E w \in Workers : ~ready[w]

\* startTeam returns its runtime
StartReturns == st.pc = "spawned" /\ st'.pc = "returned"

\* C13: when startTeam returns for N workers and M tasks, workerNames is
\* worker-1..worker-N and the task board holds the files 1..M and no other,
\* each the pending record without owner
C13_BoardIsTheTaskList ==
    [][StartReturns
          => /\ st'.runtime.workerNames =
                    [i \in 1..st.cfg.workerCount |-> WorkerName(i - 1)]
             /\ TaskFiles = 1..st.cfg.numTasks
             /\ \A t \in 1..st.cfg.numTasks : tasks[t] = NewTask(t)]_vars

\* the inbox step of an assignTask call: the append, or the throw before it
AssignNotifies(p) == asg[p].pc = "written" /\ asg'[p].pc = "idle"

\* C14: an assignTask that writes over the record it read leaves it
\* in_progress, owned by the target, with assignedAt set and its other fields
\* as they were, and touches no other task file; its inbox step, unless it
\* throws, appends one block naming the task to the inbox of the target and to
\* no other
C14_AssignSetsOwnerStatusInbox ==
    [][\A p \in Assigners :
          /\ (AssignWrites(p) /\ tasks[asg[p].taskId] = asg[p].task)
                 => /\ tasks'[asg[p].taskId].status = "in_progress"
                    /\ tasks'[asg[p].taskId].owner = asg[p].target
                    /\ tasks'[asg[p].taskId].assignedAt = now
                    /\ tasks'[asg[p].taskId].id = tasks[asg[p].taskId].id
                    /\ tasks'[asg[p].taskId].result = tasks[asg[p].taskId].result
                    /\ \A t \in DOMAIN tasks : t # asg[p].taskId => tasks'[t] = tasks[t]
          /\ AssignNotifies(p)
                 => \/ inbox' = inbox
                    \/ inbox' = [inbox EXCEPT ![asg[p].target] = Append(@, asg[p].taskId)]]_vars

\* C14, its case: a finished task assigned anew: in_progress, owned by the
\* target, its result kept, the block at the end of the target's inbox
C14_AssignedWithResultKept ==
    \E w \in Workers :
        /\ IsRecord(tasks[1])
        /\ tasks[1].status = "in_progress"
        /\ tasks[1].owner = w
        /\ tasks[1].assignedAt # NoTime
        /\ tasks[1].result = "done"
        /\ Len(inbox[w]) = 2
        /\ inbox[w][2] = 1
        /\ \A p \in Assigners : asg[p].pc = "idle"

\* C15: a task record that has an owner keeps having one as long as it exists
C15_OwnerNeverCleared ==
    [][\A t \in DOMAIN tasks :
          (IsRecord(tasks[t]) /\ tasks[t].owner # NoOwner /\ IsRecord(tasks'[t]))
              => tasks'[t].owner # NoOwner]_vars

\* createTeamSession returns its TeamSession
SessionCreated == st.pc = "persisted" /\ st'.pc = "session"

SanitizedAgain ==
    /\ sn.pc = "done"
    /\ sn.result.kind = "ok"
    /\ sn'.pc = "done"
    /\ sn'.name = sn.result.value

\* C17: sanitizeName applied to a name it has returned returns that name
C17_SanitizeIdempotent ==
    [][SanitizedAgain => sn'.result = Returned(sn.result.value)]_vars

\* C17, its case: a name of more than 50 characters, some of them not valid, was
\* stripped and cut, and the second call has returned the result of the first
C17_SanitizedTwice ==
    /\ sn.pc = "done"
    /\ Len(teamName) > NameLimit
    /\ \E i \in DOMAIN teamName : ~IsValidChar(teamName[i])
    /\ sn.name # teamName
    /\ sn.result = Returned(sn.name)

\* the places of the valid characters of a name
ValidAt(name) == {i \in DOMAIN name : IsValidChar(name[i])}

\* the place of the i-th valid character of a name
NthValid(name, i) ==
    CHOOSE j \in ValidAt(name) : Cardinality({k \in ValidAt(name) : k <= j}) = i

\* C18: sanitizeName throws exactly on the names with fewer than 2 valid
\* characters; of any other name it returns the valid characters in order, the
\* first 50 of them at most: 2 to 50 characters, all valid
C18_SanitizeStripsAndCuts ==
    sn.pc = "done"
        => LET count == Cardinality(ValidAt(sn.name)) IN
           IF count < 2
           THEN sn.result.kind = "error"
           ELSE /\ sn.result.kind = "ok"
                /\ Len(sn.result.value) = IF count <= 50 THEN count ELSE 50
                /\ Len(sn.result.value) \in 2..50
                /\ \A i \in DOMAIN sn.result.value :
                       /\ sn.result.value[i] = sn.name[NthValid(sn.name, i)]
                       /\ IsValidChar(sn.result.value[i])

\* C18, its case: a name with a character that is not valid and more than 50
\* that are has come back 50 characters long
C18_StrippedAndCut ==
    /\ sn.pc = "done"
    /\ sn.name = teamName
    /\ Cardinality(ValidAt(sn.name)) > 50
    /\ ~IsValidChar(sn.name[1])
    /\ sn.result.kind = "ok"
    /\ Len(sn.result.value) = 50

\* a step of a resumeTeam call
ResumeSteps == rs' # rs

\* a resumeTeam call comes to its end
ResumeEnds == rs' # rs /\ rs'.pc \in {"none", "returned", "thrown"}

\* C19: resumeTeam writes nothing, and it returns null when config.json is
\* missing or does not parse, and when no live session has the name it derives
\* from the team name
C19_ResumeNoneWithoutConfigOrSession ==
    [][ResumeSteps
          => /\ UNCHANGED <<fsVars, session, others>>
             /\ rs.pc \notin {"read", "alive"} /\ ~IsRecord(config)
                   => rs'.pc = "none" /\ rs'.runtime = Null
             /\ rs.pc = "read" /\ SessionNameOf(teamName) \notin LiveSessions
                   => rs'.pc = "none" /\ rs'.runtime = Null]_vars

\* C20: when startTeam has returned, its session is alive and config.json is
\* on disk, a resumeTeam call that ends returns a runtime with the session
\* name startTeam returned
C20_ResumeFindsStartedSession ==
    [][/\ ResumeEnds
       /\ st.pc = "returned"
       /\ session.exists
       /\ IsRecord(config)
       => /\ rs'.pc = "returned"
          /\ rs'.runtime.sessionName = st.runtime.sessionName]_vars

\* resumeTeam returns a runtime for the session startTeam has returned
ResumesStarted ==
    /\ ResumeEnds
    /\ rs'.pc = "returned"
    /\ st.pc = "returned"
    /\ session.exists
    /\ st.runtime.sessionName = session.name
    /\ rs'.runtime.sessionName = session.name

\* C21: the runtime resumeTeam returns names no pane differently from the
\* runtime startTeam returned for the session: a pane that both list is at
\* the same position, so under the same worker name, in both
C21_ResumeKeepsPairing ==
    [][ResumesStarted
          => \A i \in DOMAIN rs'.runtime.workerPaneIds :
                \A j \in DOMAIN st.runtime.workerPaneIds :
                   rs'.runtime.workerPaneIds[i] = st.runtime.workerPaneIds[j]
                      => rs'.runtime.workerNames[i] = st.runtime.workerNames[j]]_vars

\* a step of a monitorTeam, assignTask or resumeTeam call
ReaderSteps == hist'.monitors # hist.monitors \/ asg' # asg \/ rs' # rs

\* C22: no step of monitorTeam, assignTask or resumeTeam changes config.json;
\* resumeTeam takes the config as it is on disk, where only startTeam has
\* written it, and returns it unchanged in its runtime
C22_ConfigReadBackVerbatim ==
    [][/\ ReaderSteps => config' = config
       /\ rs' # rs /\ rs'.pc = "read" => rs'.configData = config
       /\ ResumeEnds /\ rs'.pc = "returned"
             => rs'.runtime.config = rs.configData]_vars

\* C22, its case: resumeTeam has returned the config of a team that has been
\* monitored and assigned to in the meantime
C22_ResumedAfterMonitorAndAssign ==
    /\ rs.pc = "returned"
    /\ rs.runtime.config = config
    /\ snapshot.kind = "snapshot"
    /\ Len(inbox[1]) = 2

\* a resumeTeam call begins
ResumeBegins == rs' # rs /\ rs.pc \notin {"read", "alive"}

\* C23: when shutdownTeam returns, config.json and every task file are gone,
\* and a resumeTeam call that has found no session by then finds none: it
\* returns null, at the latest from its probe
C23_ShutdownDeletesAll ==
    [][/\ ShutdownReturns
             => config' = NoFile /\ \A t \in DOMAIN tasks : tasks'[t] = NoFile
       /\ ResumeSteps /\ rs.pc # "alive" /\ sd.pc = "returned"
             => rs'.pc \in {"none", "read"}]_vars

\* C23 as amended: the same when the recursive delete went through; shutdownTeam
\* also returns when it failed, and the files are then still there
C23_ShutdownDeletesAllUnlessRmFailed ==
    [][/\ ShutdownReturns /\ sd'.removed
             => config' = NoFile /\ \A t \in DOMAIN tasks : tasks'[t] = NoFile
       /\ ResumeBegins /\ sd.pc = "returned" /\ sd.removed => rs'.pc = "none"]_vars

\* C23, its case: the team was started, shutdownTeam has returned with the
\* state directory deleted, and resumeTeam has returned null while the session
\* of another team is alive
C23_ResumedNoneAfterShutdown ==
    /\ st.pc = "returned"
    /\ sd.pc = "returned"
    /\ sd.removed
    /\ config = NoFile
    /\ rs.pc = "none"
    /\ others # {}

\* C24: sendToWorker ends with true or false and never with an error: true
\* when both send-keys commands succeeded, false when one failed; what it types
\* is a beginning of the message, 200 characters at most, and Enter only after
\* the message
C24_SendReturnsBooleanAndCuts ==
    snd.pc # "idle"
        => /\ snd.result = Returned(snd.pc = "sent")
           /\ Len(snd.typed) = (IF snd.pc = "literal-failed" THEN 0
                                ELSE IF snd.pc = "enter-failed" THEN 1 ELSE 2)
           /\ Len(snd.typed) >= 1
                 => /\ Len(snd.typed[1]) = Min(Len(snd.message), 200)
                    /\ \A i \in DOMAIN snd.typed[1] : snd.typed[1][i] = snd.message[i]
           /\ Len(snd.typed) = 2 => snd.typed[2] = "Enter"

\* C24, its case: of a message of more than 200 characters the first 200 were
\* typed, and the call returned false because Enter could not be sent
C24_LongMessageCutEnterFailed ==
    /\ snd.pc = "enter-failed"
    /\ Len(snd.message) > 200
    /\ Len(snd.typed[1]) = 200
    /\ snd.result = Returned(FALSE)

\* the pane is in the session and its process has not ended
LivePane(paneId) ==
    /\ session.exists
    /\ paneId \in Range(session.panes) \ session.closed
    /\ paneId \notin session.dead

\* C25: monitorTeam gets true from isWorkerAlive for the panes that are there
\* and not dead, and false for every other pane: for a dead one, and for one
\* the query fails on (closed, never created, session or server gone)
C25_AliveFailsClosed ==
    [][MonitorReturns
          => \A i \in DOMAIN snapshot'.workers :
                snapshot'.workers[i].alive = LivePane(snapshot'.workers[i].paneId)]_vars

\* C25, its case: a snapshot of two workers, the first not alive, the second
\* alive, where the pane of the first has closed
C25_ClosedPaneNotAlive ==
    /\ snapshot.kind = "snapshot"
    /\ Len(snapshot.workers) = 2
    /\ ~snapshot.workers[1].alive
    /\ snapshot.workers[2].alive
    /\ session.exists
    /\ 1 \in session.closed
    /\ 1 \notin session.running

\* a waitForWorkerReady call has begun and not returned
WaitRunning == wr.pc \in {"polling", "sleeping"}

\* what a waitForWorkerReady call has returned so far: true only before the
\* deadline and only with the sentinel on disk, false only from the deadline
\* on; and it runs less than one poll interval past its deadline
WaitBounded ==
    /\ wr.pc = "returned" /\ wr.result
          => ready[wr.worker] /\ wr.at < wr.deadline
    /\ wr.pc = "returned" /\ ~wr.result
          => wr.at >= wr.deadline /\ wr.at < wr.deadline + 500
    /\ WaitRunning => now < wr.deadline + 500

\* C26: waitForWorkerReady returns true only when a poll before the deadline
\* has found the sentinel, false otherwise, and it always returns, less than
\* one poll interval after the deadline
C26_WaitIsBoundedPoll == []WaitBounded /\ (WaitRunning ~> wr.pc = "returned")

\* C26, its case: the sentinel was written after the last poll before the
\* deadline, and the call returned false after the deadline
C26_ReturnedFalseSentinelLate ==
    /\ wr.pc = "returned"
    /\ ~wr.result
    /\ ready[wr.worker]
    /\ wr.at > wr.deadline

\* C27: in every snapshot deadWorkers lists, once each and in worker order, the
\* names of the workers whose alive flag is false, and the flag says whether
\* the pane is alive, whatever the heartbeat file holds
C27_DeadWorkersAreNotAlive ==
    [][MonitorReturns
          => /\ Range(snapshot'.deadWorkers)
                   = {snapshot'.workers[i].workerName :
                         i \in {j \in DOMAIN snapshot'.workers :
                                   ~snapshot'.workers[j].alive}}
             /\ \A i, j \in DOMAIN snapshot'.deadWorkers :
                   i < j => snapshot'.deadWorkers[i] < snapshot'.deadWorkers[j]
             /\ \A i \in DOMAIN snapshot'.workers :
                   snapshot'.workers[i].alive
                      = LivePane(snapshot'.workers[i].paneId)]_vars

\* C27, its case: a snapshot with one dead worker, where the heartbeat of the
\* worker that is alive is stale and the heartbeat of the other is unreadable
C27_StalledWorkerNotDead ==
    /\ snapshot.kind = "snapshot"
    /\ Len(snapshot.workers) = 2
    /\ snapshot.workers[1].alive
    /\ snapshot.workers[1].stalled
    /\ heartbeat[2] = Corrupt
    /\ snapshot.deadWorkers = <<2>>

\* C28: a monitorTeam call leaves every file of the team and the sessions as
\* they are
C28_MonitorChangesNothing ==
    [][MonitorReturns => UNCHANGED <<fsVars, session, others>>]_vars

\* C28, its case: a snapshot was taken of a team with a task file that does
\* not parse and a task in progress, and the files are still there
C28_MonitoredWithCorruptTask ==
    /\ snapshot.kind = "snapshot"
    /\ snapshot.taskCounts.inProgress = 1
    /\ snapshot.taskCounts.pending = 0
    /\ \E t \in TaskIds : tasks[t] = Corrupt
    /\ \E t \in TaskIds : IsRecord(tasks[t]) /\ tasks[t].status = "in_progress"

\* the waits of startTeam begin
WaitsBegin == st.pc = "session" /\ st'.pc = "spawned"

\* the wait of worker i can end now, ready or timed out
WaitCanEnd(i) == ENABLED WaitForWorkerReady(i)

\* C29: the waits of all workers begin together; while they run, a wait whose
\* sentinel is there can return at once, whatever the other waits do; and
\* startTeam goes on only when every wait has returned
C29_WaitsFanOutAndJoin ==
    /\ [](\A i \in Workers :
             /\ st.pc = "spawned"
             /\ i \in DOMAIN st.readyResults
             /\ st.readyResults[i] = "waiting"
             /\ ready[i]
             => WaitCanEnd(i))
    /\ [][/\ WaitsBegin
                => /\ DOMAIN st'.readyResults = 1..st.cfg.workerCount
                   /\ \A i \in DOMAIN st'.readyResults :
                         st'.readyResults[i] = "waiting"
          /\ StartReturns
                => \A i \in 1..Len(st'.runtime.workerNames) :
                      st.readyResults[i] \in {"ready", "timeout"}]_vars

\* C29, its case: the wait of worker-2 has returned ready while worker-1 has
\* written no sentinel and its wait goes on
C29_SecondReadyFirstWaiting ==
    /\ st.pc = "spawned"
    /\ Len(st.readyResults) = 2
    /\ st.readyResults[2] = "ready"
    /\ st.readyResults[1] = "waiting"
    /\ ~ready[1]

\* every task of the team has ended, completed or failed
AllTerminal ==
    \A t \in TaskIds : IsRecord(tasks[t]) /\ tasks[t].status \in {"completed", "failed"}

\* C30: once every task has ended, the loop that polls monitorTeam until the
\* phase is completed or failed is left
C30_MonitorLoopTerminates == (loop.pc = "running" /\ AllTerminal) ~> loop.pc = "exited"

\* C31: the pane respawnWorkerInPane returns is the pane its own split has
\* created, a pane that was not in the session before the call, and the worker
\* is launched in it
C31_RespawnReturnsItsOwnPane ==
    rp.pc = "returned"
        => /\ rp.newPaneId = rp.created
           /\ rp.newPaneId \notin rp.before
           /\ rp.newPaneId \in session.running

\* C32: the trigger is a nudge only: a call of assignTask that has written the
\* record and whose append to the inbox succeeds returns normally, with its
\* block at the end of the inbox, also when the trigger does not reach the
\* pane
C32_AssignReturnsWithoutTrigger ==
    [][\A p \in Assigners :
          (AssignNotify(p, TRUE) /\ asg[p].wrote /\ ~TakesKeys(asg[p].target))
              => /\ hist'.assigned = "returned"
                 /\ asg'[p] = IdleAssign
                 /\ inbox'[asg[p].target] = Append(inbox[asg[p].target], asg[p].taskId)
                 /\ session'.keys = session.keys]_vars

\* C32, its case: a call has returned after the pane of its target had closed:
\* the record names the target, the block is in its inbox, no key was typed
C32_AssignedToClosedPane ==
    /\ hist.assigned = "returned"
    /\ session.exists
    /\ session.keys = {}
    /\ \E w \in session.closed :
          /\ IsRecord(tasks[1])
          /\ tasks[1].owner = w
          /\ tasks[1].status = "in_progress"
          /\ Len(inbox[w]) = 2
          /\ inbox[w][2] = 1

\* the workers that a step of startTeam launches
Launched == (session'.running \ session.running) \cap Workers

\* C33: startTeam launches a worker only when config.json, every task record,
\* the worker's state directory and its welcome inbox are written and the
\* session has a pane for every worker; and the readiness waits begin only
\* when every worker is launched
C33_StartTeamStepsInOrder ==
    [][/\ \A w \in Launched :
             /\ st.pc = "session"
             /\ config = st.cfg
             /\ \A t \in 1..st.cfg.numTasks : IsRecord(tasks[t])
             /\ wdir[w]
             /\ inbox[w] = <<"welcome">>
             /\ session.exists
             /\ Len(session.panes) = st.cfg.workerCount
       /\ (st.pc # "spawned" /\ st'.pc = "spawned")
             => session'.running = 1..st.cfg.workerCount]_vars

\* C33, its case: the waits of a team of MaxWorkers workers with tasks have
\* begun: every worker is launched, next to its written state
C33_WaitsBegunAfterLaunch ==
    /\ st.pc = "spawned"
    /\ st.cfg.workerCount = MaxWorkers
    /\ st.cfg.numTasks = MaxTasks
    /\ session.running = Workers
    /\ \A i \in Workers : st.readyResults[i] = "waiting"

\* the last step of an assignTask call, in which its trigger reaches the pane
TriggerReaches(p) ==
    /\ asg[p].pc = "written"
    /\ asg'[p].pc = "idle"
    /\ <<asg[p].target, asg[p].taskId>> \in session'.keys \ session.keys

\* the block of the call is the last one of the inbox of its target
BlockAppended(p) ==
    /\ Len(inbox'[asg[p].target]) = Len(inbox[asg[p].target]) + 1
    /\ inbox'[asg[p].target][Len(inbox'[asg[p].target])] = asg[p].taskId

Notifies(p) ==
    /\ asg[p].pc = "written"
    /\ asg'[p].pc = "idle"
    /\ \/ inbox'[asg[p].target] # inbox[asg[p].target]
       \/ session'.keys # session.keys

\* C36: assignTask notifies a worker only of a task that has a record which
\* the same call has written with that worker as owner; for a task id without
\* a readable record it creates no record and notifies nobody
C36_NotificationsBackedByBoard ==
    [][\A p \in Assigners :
          /\ Notifies(p) => asg[p].found /\ asg[p].wrote
          /\ (asg[p].pc = "read" /\ asg'[p].pc = "written" /\ ~asg[p].found)
                => tasks'[asg[p].taskId] = tasks[asg[p].taskId]]_vars

\* a step in which startTeam throws, past the validation of the agent types
StartFails ==
    /\ st'.pc = "thrown"
    /\ st' # st \/ hist'.starts # hist.starts
    /\ st'.outcome # "cli-unavailable"

\* what is on disk and in the multiplexer before the step is there after it
NothingUndone ==
    /\ dirs \subseteq dirs'
    /\ config # NoFile => config' # NoFile
    /\ \A t \in TaskIds : tasks[t] # NoFile => tasks'[t] # NoFile
    /\ \A w \in Workers : (wdir[w] => wdir'[w]) /\ (inbox[w] # <<>> => inbox'[w] # <<>>)
    /\ session.exists
          => /\ session'.exists
             /\ Range(session.panes) \subseteq Range(session'.panes)
             /\ session.running \subseteq session'.running

\* everything the writes of startTeam(cfg) produce is on disk after the step
AllPersisted(cfg) ==
    /\ dirs' = {"root", "tasks", "mailbox"}
    /\ config' = cfg
    /\ \A t \in 1..cfg.numTasks : IsRecord(tasks'[t])
    /\ \A w \in 1..cfg.workerCount : wdir'[w] /\ inbox'[w] = <<"welcome">>

\* C35: startTeam undoes nothing when it fails: a failing write leaves what
\* was written before it, a failing createTeamSession leaves the whole state
\* directory and, when a split failed, the session and its panes, a failing
\* launch leaves all that and the workers launched before it
C35_StartTeamNoRollback ==
    [][StartFails
          => /\ NothingUndone
             /\ st.pc \in {"persisted", "session"} => AllPersisted(st.cfg)
             /\ st'.outcome \in {"split-failed", "launch-failed"} => session'.exists
             /\ st.pc = "session"
                   => /\ session'.panes = session.panes
                      /\ session'.name = st.teamSession.sessionName]_vars

\* C35, its case: startTeam has thrown at the launch of the second worker: the
\* config, the session and the first worker are there
C35_ThrownWithWorkerLaunched ==
    /\ st.pc = "thrown"
    /\ st.outcome = "launch-failed"
    /\ config # NoFile
    /\ config.workerCount = MaxWorkers
    /\ session.exists
    /\ session.running = {1}

\* C37: startTeam launches workers in panes of its workerPaneIds only, waits
\* and returns only with a pane for every worker, and in the runtime it
\* returns workerNames and workerPaneIds have workerCount entries each, the
\* worker named at an index launched in the pane at that index
C37_RuntimePairsEveryWorker ==
    /\ [](st.pc = "spawned"
            => /\ Len(st.teamSession.workerPaneIds) = st.cfg.workerCount
               /\ \A i \in 1..st.cfg.workerCount :
                     st.teamSession.workerPaneIds[i] \in session.running)
    /\ [][/\ st.pc = "session"
             => (session'.running \ session.running)
                    \subseteq (Range(st.teamSession.workerPaneIds) \ {NoPane})
          /\ (st.pc = "spawned" /\ st'.pc = "returned")
             => /\ Len(st'.runtime.workerNames) = st.cfg.workerCount
                /\ Len(st'.runtime.workerPaneIds) = st.cfg.workerCount
                /\ \A i \in 1..st.cfg.workerCount :
                      /\ st'.runtime.workerNames[i] = WorkerName(i - 1)
                      /\ st'.runtime.workerPaneIds[i] = st.teamSession.workerPaneIds[i]
                      /\ st'.runtime.workerPaneIds[i] \in session.running
                      /\ \A j \in 1..st.cfg.workerCount :
                            i # j => st'.runtime.workerPaneIds[i]
                                        # st'.runtime.workerPaneIds[j]]_vars

\* C37, its case: createTeamSession has returned fewer panes than there are
\* workers, the listing after the last split showing no new pane
C37_PaneMissingAfterSplit ==
    /\ st.pc = "session"
    /\ st.cfg.workerCount = MaxWorkers
    /\ Len(st.teamSession.workerPaneIds) < st.cfg.workerCount
    /\ Len(st.teamSession.allPanes) = MaxWorkers

\* C38: the taskCounts of every snapshot are the tally of the task board as
\* it stood at one instant between the start and the end of the monitorTeam
\* call that made it
C38_CountsOfOneInstant ==
    mon.pc = "returned" => snapshot.taskCounts \in mon.seen

\* C39: a resumeTeam call that finds no session for its name, at its probe or
\* at its pane listing, ends with null and not with an exception
C39_MissingSessionIsNone ==
    [][ResumeEnds /\ ~HasSession(SessionNameOf(teamName))
          => rs'.pc = "none" /\ rs'.runtime = Null]_vars

\* C40: within a shutdownTeam call the set of workers waited for only
\* shrinks; a poll before the deadline drops exactly the workers whose ack
\* marker exists, sleeps when some are left, and when none is left goes on to
\* the kill at once, which destroys the session whatever the clock says
C40_AcksOnlyShrinkAndWaitEndsEarly ==
    [][/\ sd.pc \in {"polling", "sleeping", "killing", "cleaning"}
             => sd'.expectedAcks \subseteq sd.expectedAcks
       /\ (sd.pc = "polling" /\ sd' # sd /\ now < sd.deadline /\ sd.expectedAcks # {})
             => /\ sd'.expectedAcks = {w \in sd.expectedAcks : ~ack[w]}
                /\ sd'.pc = IF sd'.expectedAcks = {} THEN "killing" ELSE "sleeping"
                /\ sd'.expectedAcks = {} => sd'.wake = sd.wake
       /\ (sd.pc = "killing" /\ sd' # sd)
             => sd'.pc = "cleaning" /\ ~session'.exists]_vars

\* C40, its case: after a sleep, a poll before the deadline has found the
\* last of two workers acked and the call is at the kill
C40_AtKillBeforeDeadlineAfterSleep ==
    /\ sd.pc = "killing"
    /\ sd.workerCount = MaxWorkers
    /\ sd.expectedAcks = {}
    /\ sd.wake > 0
    /\ now < sd.deadline
    /\ session.exists

====
